---- MODULE Spec2Model ----
(***************************************************************************)
(* A model of the Onyx bytecode interpreter: the open-addressing hash      *)
(* table (strings pool and globals), string interning, and the stack VM    *)
(* with call frames, closures and upvalues.                                *)
(***************************************************************************)
EXTENDS Integers, Sequences, FiniteSets, TLC

(***************************************************************************)
(* Values: a tagged union, every variant with the same record shape.       *)
(***************************************************************************)
NIL_VAL == [t |-> "nil", v |-> 0]
BOOL_VAL(b) == [t |-> "bool", v |-> IF b THEN 1 ELSE 0]
NUMBER_VAL(n) == [t |-> "num", v |-> n]
OBJ_VAL(h) == [t |-> "obj", v |-> h]

IS_NIL(x) == x.t = "nil"
IS_BOOL(x) == x.t = "bool"
IS_NUMBER(x) == x.t = "num"
IS_OBJ(x) == x.t = "obj"
AS_BOOL(x) == x.v = 1

\* No binding: the reference map's value for an absent key.
Absent == [t |-> "absent", v |-> 0]

\* The null pointer (a key, an object handle, a list link).
NULL == 0

\* The result of a probe loop that never returns.
NoReturn == 0 - 1

(***************************************************************************)
(* Strings: contents are byte sequences; the hash is 32-bit FNV-1a, kept   *)
(* as two 16-bit halves <<hi, lo>> so that no product leaves 32 bits.      *)
(***************************************************************************)
RECURSIVE XorBits(_, _, _)
XorBits(a, b, n) ==
    IF n = 0 THEN 0
    ELSE (((a % 2) + (b % 2)) % 2) + 2 * XorBits(a \div 2, b \div 2, n - 1)

\* hash *= 16777619 on the halves, p being lo * 403.
FnvHalves(hi, lo, p) ==
    << ((hi * 403) + (p \div 65536) + ((lo % 256) * 256)) % 65536, p % 65536 >>

FnvMul(hi, lo) == FnvHalves(hi, lo, lo * 403)

\* hash ^= byte; hash *= 16777619
FnvStep(h, byte) ==
    FnvMul(h[1], (h[2] \div 256) * 256 + XorBits(h[2] % 256, byte, 8))

RECURSIVE FnvFrom(_, _, _)
FnvFrom(h, chars, i) ==
    IF i > Len(chars) THEN h ELSE FnvFrom(FnvStep(h, chars[i]), chars, i + 1)

hashString(chars) == FnvFrom(<<33052, 40389>>, chars, 1)

\* hash % capacity, for a capacity that divides 2^16.
HashMod(h, capacity) == h[2] % capacity

(***************************************************************************)
(* The heap: a sequence of objects, an object's handle being its index.    *)
(* Every object is a record of the same shape; the fields a variant does   *)
(* not have keep their defaults.                                           *)
(***************************************************************************)
BlankObj ==
    [type |-> "none", chars |-> <<>>, hash |-> <<0, 0>>, fn |-> "",
     function |-> NULL, constants |-> <<>>, upvalues |-> <<>>, captured |-> <<>>,
     location |-> 0, closed |-> NIL_VAL, next |-> NULL]

StringObj(chars, hash) ==
    [BlankObj EXCEPT !.type = "string", !.chars = chars, !.hash = hash]

isObjType(h, value, type) == IS_OBJ(value) /\ h[value.v].type = type
IS_STRING(h, value) == isObjType(h, value, "string")

(***************************************************************************)
(* The hash table (table.c): open addressing with linear probing.  A table *)
(* is [count, capacity, entries]; entry i of the C array is entries[i+1].  *)
(***************************************************************************)
Entry(key, value) == [key |-> key, value |-> value]
EmptyEntry == Entry(NULL, NIL_VAL)
Tombstone == Entry(NULL, BOOL_VAL(TRUE))

\* initTable
initTable == [count |-> 0, capacity |-> 0, entries |-> <<>>]

\* GROW_CAPACITY
GROW_CAPACITY(capacity) == IF capacity < 8 THEN 8 ELSE capacity * 2

\* The probe loop of findEntry from slot index on, tombstone being the first
\* tombstone met so far (NoReturn: none).  The loop's state repeats after
\* capacity steps, so a loop that has not returned by then never returns.
RECURSIVE FindEntryFrom(_, _, _, _, _, _, _)
FindEntryFrom(h, entries, capacity, key, index, tombstone, steps) ==
    IF steps >= capacity THEN NoReturn
    ELSE LET entry == entries[index + 1]
         IN  IF entry.key = NULL
             THEN IF IS_NIL(entry.value)
                  THEN (IF tombstone # NoReturn THEN tombstone ELSE index)
                  ELSE FindEntryFrom(h, entries, capacity, key, (index + 1) % capacity,
                                     IF tombstone = NoReturn THEN index ELSE tombstone,
                                     steps + 1)
             ELSE IF entry.key = key
                  THEN index
                  ELSE FindEntryFrom(h, entries, capacity, key, (index + 1) % capacity,
                                     tombstone, steps + 1)

\* findEntry that never hands out a tombstone: it probes on to the empty slot.
findEntry_PastTombstones(h, entries, capacity, key) ==
    LET e == FindEntryFrom(h, entries, capacity, key, HashMod(h[key].hash, capacity),
                           NoReturn, 0)
        empties == {i \in 0..(capacity - 1) :
                       entries[i + 1].key = NULL /\ IS_NIL(entries[i + 1].value)}
    IN  IF e = NoReturn \/ entries[e + 1].key # NULL \/ IS_NIL(entries[e + 1].value)
        THEN e
        ELSE CHOOSE i \in empties :
                 \A j \in empties :
                     (i - e + capacity) % capacity <= (j - e + capacity) % capacity

\* findEntry: the index of the bucket for key, or NoReturn.
findEntry(h, entries, capacity, key) ==
    FindEntryFrom(h, entries, capacity, key, HashMod(h[key].hash, capacity), NoReturn, 0)

\* One pass of adjustCapacity's copy loop: the key goes to bucket dest, whose
\* value stays the destination's own (dest->value = dest->value).
AdjustPut(entries, dest, key) ==
    [entries EXCEPT ![dest + 1] = Entry(key, entries[dest + 1].value)]

\* The copy loop of adjustCapacity over the old entries i .. oldCapacity-1.
RECURSIVE AdjustCopy(_, _, _, _, _)
AdjustCopy(h, old, entries, capacity, i) ==
    IF i >= Len(old) THEN entries
    ELSE IF old[i + 1].key = NULL
         THEN AdjustCopy(h, old, entries, capacity, i + 1)
         ELSE AdjustCopy(h, old,
                         AdjustPut(entries,
                                   findEntry(h, entries, capacity, old[i + 1].key),
                                   old[i + 1].key),
                         capacity, i + 1)

\* adjustCapacity: the new array holds the old keys, and count stays 0.
adjustCapacity(h, table, capacity) ==
    [count |-> 0,
     capacity |-> capacity,
     entries |-> AdjustCopy(h, table.entries, [i \in 1..capacity |-> EmptyEntry],
                            capacity, 0)]

\* tableSet once findEntry has answered e: [table, ret, hang], ret being
\* isNewKey.
TableSetAt(t, e, key, value) ==
    IF e = NoReturn THEN [table |-> t, ret |-> FALSE, hang |-> TRUE]
    ELSE [table |-> [t EXCEPT
                       !.count = IF t.entries[e + 1].key = NULL
                                    /\ IS_NIL(t.entries[e + 1].value)
                                 THEN @ + 1 ELSE @,
                       !.entries[e + 1] = Entry(key, value)],
          ret |-> t.entries[e + 1].key = NULL, hang |-> FALSE]

\* tableSet after the growth test.
TableSetIn(h, t, key, value) ==
    TableSetAt(t, findEntry(h, t.entries, t.capacity, key), key, value)

\* tableSet: grow when count + 1 > capacity * TABLE_MAX_LOAD, then store.
tableSet(h, table, key, value) ==
    TableSetIn(h,
               IF (table.count + 1) * 4 > table.capacity * 3
               THEN adjustCapacity(h, table, GROW_CAPACITY(table.capacity))
               ELSE table,
               key, value)

\* tableDelete once findEntry has answered e.
TableDeleteAt(table, e) ==
    IF e = NoReturn THEN [table |-> table, ret |-> FALSE, hang |-> TRUE]
    ELSE IF table.entries[e + 1].key = NULL
         THEN [table |-> table, ret |-> FALSE, hang |-> FALSE]
         ELSE [table |-> [table EXCEPT !.entries[e + 1] = Tombstone],
               ret |-> TRUE, hang |-> FALSE]

\* tableDelete: [table, ret, hang].
tableDelete(h, table, key) ==
    IF table.count = 0 THEN [table |-> table, ret |-> FALSE, hang |-> FALSE]
    ELSE TableDeleteAt(table, findEntry(h, table.entries, table.capacity, key))

\* tableGet once findEntry has answered e.
TableGetAt(table, e) ==
    IF e = NoReturn THEN [ret |-> FALSE, value |-> NIL_VAL, hang |-> TRUE]
    ELSE IF table.entries[e + 1].key = NULL
         THEN [ret |-> FALSE, value |-> NIL_VAL, hang |-> FALSE]
         ELSE [ret |-> TRUE, value |-> table.entries[e + 1].value, hang |-> FALSE]

\* tableGet: [ret, value, hang].
tableGet(h, table, key) ==
    IF table.count = 0 THEN [ret |-> FALSE, value |-> NIL_VAL, hang |-> FALSE]
    ELSE TableGetAt(table, findEntry(h, table.entries, table.capacity, key))

\* Whether the String at key has these contents (length, hash, bytes).
SameString(h, key, chars, hash) ==
    /\ Len(h[key].chars) = Len(chars)
    /\ h[key].hash = hash
    /\ h[key].chars = chars

\* The probe loop of tableFindString.
RECURSIVE FindStringFrom(_, _, _, _, _, _)
FindStringFrom(h, table, chars, hash, index, steps) ==
    IF steps >= table.capacity THEN NoReturn
    ELSE IF table.entries[index + 1].key = NULL
         THEN IF IS_NIL(table.entries[index + 1].value) THEN NULL
              ELSE FindStringFrom(h, table, chars, hash,
                                  (index + 1) % table.capacity, steps + 1)
         ELSE IF SameString(h, table.entries[index + 1].key, chars, hash)
              THEN table.entries[index + 1].key
              ELSE FindStringFrom(h, table, chars, hash,
                                  (index + 1) % table.capacity, steps + 1)

\* tableFindString that gives up at the first bucket that holds another string.
tableFindString_OneProbe(h, table, chars, hash) ==
    IF table.count = 0 THEN NULL
    ELSE IF table.entries[HashMod(hash, table.capacity) + 1].key # NULL
            /\ SameString(h, table.entries[HashMod(hash, table.capacity) + 1].key,
                          chars, hash)
         THEN table.entries[HashMod(hash, table.capacity) + 1].key
         ELSE NULL

\* tableFindString: the interned handle, NULL, or NoReturn.
tableFindString(h, table, chars, hash) ==
    IF table.count = 0 THEN NULL
    ELSE FindStringFrom(h, table, chars, hash, HashMod(hash, table.capacity), 0)

(***************************************************************************)
(* String construction (object.c): copyString interns through the strings  *)
(* table.  A memory is [heap, strings, globals].                           *)
(***************************************************************************)
NativeObj(fn) == [BlankObj EXCEPT !.type = "native", !.fn = fn]

\* allocateString once the object is on the heap h2 and entered in strings.
AllocatedString(h2, r) ==
    [heap |-> h2, strings |-> r.table, handle |-> Len(h2), hang |-> r.hang]

\* allocateString on the heap that already holds the new object.
AllocateStringIn(h2, strs) ==
    AllocatedString(h2, tableSet(h2, strs, Len(h2), NIL_VAL))

\* allocateString: a new String object, entered in the strings table.
allocateString(h, strs, chars, hash) ==
    AllocateStringIn(Append(h, StringObj(chars, hash)), strs)

\* copyString once tableFindString has answered interned.
CopyStringFound(h, strs, chars, hash, interned) ==
    IF interned = NoReturn
    THEN [heap |-> h, strings |-> strs, handle |-> NULL, hang |-> TRUE]
    ELSE IF interned # NULL
         THEN [heap |-> h, strings |-> strs, handle |-> interned, hang |-> FALSE]
         ELSE allocateString(h, strs, chars, hash)

\* copyString with the hash computed.
CopyStringHashed(h, strs, chars, hash) ==
    CopyStringFound(h, strs, chars, hash, tableFindString(h, strs, chars, hash))

\* copyString: the interned String of these contents, allocated if new.
copyString(h, strs, chars) == CopyStringHashed(h, strs, chars, hashString(chars))

\* takeString: as copyString, for a buffer the caller already owns.
takeString(h, strs, chars) == copyString(h, strs, chars)

\* defineNative once the Native is on the heap h2: bind it in globals.
DefineNativeBound(h2, strs, g) ==
    [heap |-> h2, strings |-> strs, globals |-> g.table]

\* defineNative once the name is interned (s) and the Native allocated (h2).
DefineNativeIn(m, s, h2) ==
    DefineNativeBound(h2, s.strings,
                      tableSet(h2, m.globals, s.handle, OBJ_VAL(Len(h2))))

\* defineNative with the name interned (s).
DefineNativeNamed(m, s, fn) == DefineNativeIn(m, s, Append(s.heap, NativeObj(fn)))

\* defineNative: intern the name, allocate the Native, bind it in globals.
defineNative(m, name, fn) ==
    DefineNativeNamed(m, copyString(m.heap, m.strings, name), fn)

ClockName == <<99, 108, 111, 99, 107>>
InputName == <<105, 110, 112, 117, 116>>
NumName == <<110, 117, 109>>

\* initVM: empty tables, then the three natives.
initVM ==
    defineNative(
        defineNative(
            defineNative([heap |-> <<>>, strings |-> initTable, globals |-> initTable],
                         ClockName, "clock"),
            InputName, "input"),
        NumName, "num")

(***************************************************************************)
(* State.                                                                  *)
(***************************************************************************)
VARIABLES
    heap,           \* vm.objects: every allocated object
    strings,        \* vm.strings
    globals,        \* vm.globals
    stack,          \* vm.stack: the slots written so far
    stackTop,       \* vm.stackTop, as an index into stack
    frames,         \* vm.frames[0 .. frameCount-1]
    openUpvalues,   \* vm.openUpvalues: head of the open list
    prog,           \* the source being interpreted
    runs,           \* how many interpret calls have been made
    status,         \* "idle", "running", "hung" (a loop that never returns) or
                    \* "undefined" (a write outside vm.stack)
    result,         \* what the last interpret call returned
    errors,         \* the runtime errors reported by the current interpret call
    output,         \* the values printed by the current interpret call
    gen,            \* per captured stack slot, how many times the slot has been popped
    ref,            \* the key -> value map that globals is meant to be
    ret,            \* the last direct call on the globals table and its results
    parser,         \* the compiler's Parser, scanner and chunk
    process,        \* the process of main: its arguments, where it is, its exit code
    compiled        \* what compile makes of each source: the functions, by function id

vars == << heap, strings, globals, stack, stackTop, frames, openUpvalues,
           prog, runs, status, result, errors, output, gen, ref, ret, parser, process,
           compiled >>

vmVars == << stack, stackTop, frames, openUpvalues, prog, runs, result, errors,
             output, gen, parser, process, compiled >>

(***************************************************************************)
(* Compiled programs.  A function is its bytecode, one record per          *)
(* instruction (the operand bytes are the fields a and ups; ip counts      *)
(* instructions, jump offsets too), with the constants it needs in the     *)
(* order the single-pass compiler adds them.                               *)
(***************************************************************************)
Op(o) == [op |-> o, a |-> 0, ups |-> <<>>]
Op1(o, a) == [op |-> o, a |-> a, ups |-> <<>>]
ClosureInstr(a, ups) == [op |-> "OP_CLOSURE", a |-> a, ups |-> ups]

Num(n) == [k |-> "num", n |-> n, chars |-> <<>>]
Str(chars) == [k |-> "str", n |-> 0, chars |-> chars]
Fun(fid) == [k |-> "fn", n |-> fid, chars |-> <<>>]

Function(name, arity, upvalueCount, code, constants) ==
    [name |-> name, arity |-> arity, upvalueCount |-> upvalueCount, code |-> code,
     constants |-> constants, hadError |-> FALSE]

\* How many globals the declaring script declares ("a", "b", ...).
NumDecls == 13

\* var a = 1; var b = 2; var c = 3; var d = 4; print a; print clock;
FourGlobals ==
    Function(<<>>, 0, 0,
        << Op1("OP_CONSTANT", 1), Op1("OP_DEFINE_GLOBAL", 0),
           Op1("OP_CONSTANT", 3), Op1("OP_DEFINE_GLOBAL", 2),
           Op1("OP_CONSTANT", 5), Op1("OP_DEFINE_GLOBAL", 4),
           Op1("OP_CONSTANT", 7), Op1("OP_DEFINE_GLOBAL", 6),
           Op1("OP_GET_GLOBAL", 8), Op("OP_PRINT"),
           Op1("OP_GET_GLOBAL", 9), Op("OP_PRINT"),
           Op("OP_NIL"), Op("OP_RETURN") >>,
        << Str(<<97>>), Num(1), Str(<<98>>), Num(2), Str(<<99>>), Num(3),
           Str(<<100>>), Num(4), Str(<<97>>), Str(<<99, 108, 111, 99, 107>>) >>)

\* var g; var s;
\* { var i = 0; fun get() { return i; } fun set(v) { i = v; }
\*   g = get; s = set; s(1); print g(); }
\* s(2); print g();
ClosuresScript ==
    Function(<<>>, 0, 0,
        << Op("OP_NIL"), Op1("OP_DEFINE_GLOBAL", 0),
           Op("OP_NIL"), Op1("OP_DEFINE_GLOBAL", 1),
           Op1("OP_CONSTANT", 2),
           ClosureInstr(3, << <<1, 1>> >>),
           ClosureInstr(4, << <<1, 1>> >>),
           Op1("OP_GET_LOCAL", 2), Op1("OP_SET_GLOBAL", 5), Op("OP_POP"),
           Op1("OP_GET_LOCAL", 3), Op1("OP_SET_GLOBAL", 6), Op("OP_POP"),
           Op1("OP_GET_GLOBAL", 7), Op1("OP_CONSTANT", 8), Op1("OP_CALL", 1), Op("OP_POP"),
           Op1("OP_GET_GLOBAL", 9), Op1("OP_CALL", 0), Op("OP_PRINT"),
           Op("OP_POP"), Op("OP_POP"), Op("OP_CLOSE_UPVALUE"),
           Op1("OP_GET_GLOBAL", 10), Op1("OP_CONSTANT", 11), Op1("OP_CALL", 1), Op("OP_POP"),
           Op1("OP_GET_GLOBAL", 12), Op1("OP_CALL", 0), Op("OP_PRINT"),
           Op("OP_NIL"), Op("OP_RETURN") >>,
        << Str(<<103>>), Str(<<115>>), Num(0), Fun(3), Fun(4), Str(<<103>>), Str(<<115>>),
           Str(<<115>>), Num(1), Str(<<103>>), Str(<<115>>), Num(2), Str(<<103>>) >>)

ClosuresGet ==
    Function(<<103, 101, 116>>, 0, 1,
        << Op1("OP_GET_UPVALUE", 0), Op("OP_RETURN"), Op("OP_NIL"), Op("OP_RETURN") >>,
        <<>>)

ClosuresSet ==
    Function(<<115, 101, 116>>, 1, 1,
        << Op1("OP_GET_LOCAL", 1), Op1("OP_SET_UPVALUE", 0), Op("OP_POP"),
           Op("OP_NIL"), Op("OP_RETURN") >>,
        <<>>)

\* fun f() { f(); }  f();
RecursionScript ==
    Function(<<>>, 0, 0,
        << ClosureInstr(1, <<>>), Op1("OP_DEFINE_GLOBAL", 0),
           Op1("OP_GET_GLOBAL", 2), Op1("OP_CALL", 0), Op("OP_POP"),
           Op("OP_NIL"), Op("OP_RETURN") >>,
        << Str(<<102>>), Fun(6), Str(<<102>>) >>)

RecursionF ==
    Function(<<102>>, 0, 0,
        << Op1("OP_GET_GLOBAL", 0), Op1("OP_CALL", 0), Op("OP_POP"),
           Op("OP_NIL"), Op("OP_RETURN") >>,
        << Str(<<102>>) >>)

\* fun f(x) { print x; }  f(7); f();
ArityScript ==
    Function(<<>>, 0, 0,
        << ClosureInstr(1, <<>>), Op1("OP_DEFINE_GLOBAL", 0),
           Op1("OP_GET_GLOBAL", 2), Op1("OP_CONSTANT", 3), Op1("OP_CALL", 1), Op("OP_POP"),
           Op1("OP_GET_GLOBAL", 4), Op1("OP_CALL", 0), Op("OP_POP"),
           Op("OP_NIL"), Op("OP_RETURN") >>,
        << Str(<<102>>), Fun(8), Str(<<102>>), Num(7), Str(<<102>>) >>)

ArityF ==
    Function(<<102>>, 1, 0,
        << Op1("OP_GET_LOCAL", 1), Op("OP_PRINT"), Op("OP_NIL"), Op("OP_RETURN") >>,
        <<>>)

\* { var i = 0; fun bad() { i = i + nil; }  bad(); }
FaultScript ==
    Function(<<>>, 0, 0,
        << Op1("OP_CONSTANT", 0), ClosureInstr(1, << <<1, 1>> >>),
           Op1("OP_GET_LOCAL", 2), Op1("OP_CALL", 0), Op("OP_POP"),
           Op("OP_POP"), Op("OP_CLOSE_UPVALUE"),
           Op("OP_NIL"), Op("OP_RETURN") >>,
        << Num(0), Fun(10) >>)

FaultBad ==
    Function(<<98, 97, 100>>, 0, 1,
        << Op1("OP_GET_UPVALUE", 0), Op("OP_NIL"), Op("OP_ADD"),
           Op1("OP_SET_UPVALUE", 0), Op("OP_POP"), Op("OP_NIL"), Op("OP_RETURN") >>,
        <<>>)

\* var a; var b; ... (NumDecls declarations)
DeclsScript ==
    Function(<<>>, 0, 0,
        [i \in 1..(2 * NumDecls) |->
            IF i % 2 = 1 THEN Op("OP_NIL") ELSE Op1("OP_DEFINE_GLOBAL", (i \div 2) - 1)]
        \o << Op("OP_NIL"), Op("OP_RETURN") >>,
        [i \in 1..NumDecls |-> Str(<<96 + i>>)])

\* { var x = true; x = !x; if (x == false) print "a" + "b"; else print 1 + 2; }
\* print "a" == "a"; clock();
MiscScript ==
    Function(<<>>, 0, 0,
        << Op("OP_TRUE"),
           Op1("OP_GET_LOCAL", 1), Op("OP_NOT"), Op1("OP_SET_LOCAL", 1), Op("OP_POP"),
           Op1("OP_GET_LOCAL", 1), Op("OP_FALSE"), Op("OP_EQUAL"),
           Op1("OP_JUMP_IF_FALSE", 6), Op("OP_POP"),
           Op1("OP_CONSTANT", 0), Op1("OP_CONSTANT", 1), Op("OP_ADD"), Op("OP_PRINT"),
           Op1("OP_JUMP", 5), Op("OP_POP"),
           Op1("OP_CONSTANT", 2), Op1("OP_CONSTANT", 3), Op("OP_ADD"), Op("OP_PRINT"),
           Op("OP_POP"),
           Op1("OP_CONSTANT", 5), Op1("OP_CONSTANT", 6), Op("OP_EQUAL"), Op("OP_PRINT"),
           Op1("OP_GET_GLOBAL", 4), Op1("OP_CALL", 0), Op("OP_POP"),
           Op("OP_NIL"), Op("OP_RETURN") >>,
        << Str(<<97>>), Str(<<98>>), Num(1), Num(2), Str(<<99, 108, 111, 99, 107>>),
           Str(<<97>>), Str(<<97>>) >>)

\* print 7 == clock(1, 2); print num("12", "3"); print input("a");
NativeScript ==
    Function(<<>>, 0, 0,
        << Op1("OP_CONSTANT", 0),
           Op1("OP_GET_GLOBAL", 1), Op1("OP_CONSTANT", 2), Op1("OP_CONSTANT", 3),
           Op1("OP_CALL", 2), Op("OP_EQUAL"), Op("OP_PRINT"),
           Op1("OP_GET_GLOBAL", 4), Op1("OP_CONSTANT", 5), Op1("OP_CONSTANT", 6),
           Op1("OP_CALL", 2), Op("OP_PRINT"),
           Op1("OP_GET_GLOBAL", 7), Op1("OP_CONSTANT", 8),
           Op1("OP_CALL", 1), Op("OP_PRINT"),
           Op("OP_NIL"), Op("OP_RETURN") >>,
        << Num(7), Str(<<99, 108, 111, 99, 107>>), Num(1), Num(2),
           Str(<<110, 117, 109>>), Str(<<49, 50>>), Str(<<51>>),
           Str(<<105, 110, 112, 117, 116>>), Str(<<97>>) >>)

\* print 1 == "45"; print num(); print input();
StaleScript ==
    Function(<<>>, 0, 0,
        << Op1("OP_CONSTANT", 0), Op1("OP_CONSTANT", 1), Op("OP_EQUAL"), Op("OP_PRINT"),
           Op1("OP_GET_GLOBAL", 2), Op1("OP_CALL", 0), Op("OP_PRINT"),
           Op1("OP_GET_GLOBAL", 3), Op1("OP_CALL", 0), Op("OP_PRINT"),
           Op("OP_NIL"), Op("OP_RETURN") >>,
        << Num(1), Str(<<52, 53>>), Str(<<110, 117, 109>>),
           Str(<<105, 110, 112, 117, 116>>) >>)

\* var gg;
\* fun outer(p) {
\*   var a = 1; var b = 2;
\*   { var c = 3;
\*     fun h() { return c + a; }
\*     fun g() { b = b + a; return b + h(); }
\*     gg = g; }
\*   a = 5; print gg();
\*   return b; }
\* print 7 + outer(0); print gg();
NestScript ==
    Function(<<>>, 0, 0,
        << Op("OP_NIL"), Op1("OP_DEFINE_GLOBAL", 0),
           ClosureInstr(1, <<>>), Op1("OP_DEFINE_GLOBAL", 2),
           Op1("OP_CONSTANT", 3), Op1("OP_GET_GLOBAL", 4), Op1("OP_CONSTANT", 5),
           Op1("OP_CALL", 1), Op("OP_ADD"), Op("OP_PRINT"),
           Op1("OP_GET_GLOBAL", 6), Op1("OP_CALL", 0), Op("OP_PRINT"),
           Op("OP_NIL"), Op("OP_RETURN") >>,
        << Str(<<103, 103>>), Fun(27), Str(<<111, 117, 116, 101, 114>>), Num(7),
           Str(<<111, 117, 116, 101, 114>>), Num(0), Str(<<103, 103>>) >>)

NestOuter ==
    Function(<<111, 117, 116, 101, 114>>, 1, 0,
        << Op1("OP_CONSTANT", 0), Op1("OP_CONSTANT", 1), Op1("OP_CONSTANT", 2),
           ClosureInstr(3, << <<1, 4>>, <<1, 2>> >>),
           ClosureInstr(4, << <<1, 3>>, <<1, 2>>, <<1, 5>> >>),
           Op1("OP_GET_LOCAL", 6), Op1("OP_SET_GLOBAL", 5), Op("OP_POP"),
           Op("OP_POP"), Op("OP_CLOSE_UPVALUE"), Op("OP_CLOSE_UPVALUE"),
           Op1("OP_CONSTANT", 6), Op1("OP_SET_LOCAL", 2), Op("OP_POP"),
           Op1("OP_GET_GLOBAL", 7), Op1("OP_CALL", 0), Op("OP_PRINT"),
           Op1("OP_GET_LOCAL", 3), Op("OP_RETURN"),
           Op("OP_NIL"), Op("OP_RETURN") >>,
        << Num(1), Num(2), Num(3), Fun(28), Fun(29), Str(<<103, 103>>),
           Num(5), Str(<<103, 103>>) >>)

NestH ==
    Function(<<104>>, 0, 2,
        << Op1("OP_GET_UPVALUE", 0), Op1("OP_GET_UPVALUE", 1), Op("OP_ADD"),
           Op("OP_RETURN"), Op("OP_NIL"), Op("OP_RETURN") >>,
        <<>>)

NestG ==
    Function(<<103>>, 0, 3,
        << Op1("OP_GET_UPVALUE", 0), Op1("OP_GET_UPVALUE", 1), Op("OP_ADD"),
           Op1("OP_SET_UPVALUE", 0), Op("OP_POP"),
           Op1("OP_GET_UPVALUE", 0), Op1("OP_GET_UPVALUE", 2), Op1("OP_CALL", 0),
           Op("OP_ADD"), Op("OP_RETURN"), Op("OP_NIL"), Op("OP_RETURN") >>,
        <<>>)

\* var g;
\* { var i = 1; fun get() { return i; } g = get; -nil; }
LeakScript ==
    Function(<<>>, 0, 0,
        << Op("OP_NIL"), Op1("OP_DEFINE_GLOBAL", 0),
           Op1("OP_CONSTANT", 1),
           ClosureInstr(2, << <<1, 1>> >>),
           Op1("OP_GET_LOCAL", 2), Op1("OP_SET_GLOBAL", 3), Op("OP_POP"),
           Op("OP_NIL"), Op("OP_NEGATE"), Op("OP_POP"),
           Op("OP_POP"), Op("OP_CLOSE_UPVALUE"),
           Op("OP_NIL"), Op("OP_RETURN") >>,
        << Str(<<103>>), Num(1), Fun(31), Str(<<103>>) >>)

LeakGet ==
    Function(<<103, 101, 116>>, 0, 1,
        << Op1("OP_GET_UPVALUE", 0), Op("OP_RETURN"), Op("OP_NIL"), Op("OP_RETURN") >>,
        <<>>)

\* print 7 + g();
ReadScript ==
    Function(<<>>, 0, 0,
        << Op1("OP_CONSTANT", 0), Op1("OP_GET_GLOBAL", 1), Op1("OP_CALL", 0),
           Op("OP_ADD"), Op("OP_PRINT"), Op("OP_NIL"), Op("OP_RETURN") >>,
        << Num(7), Str(<<103>>) >>)

\* How many globals fill the table but for one slot: after its one growth the
\* table has GROW_CAPACITY(GROW_CAPACITY(0)) slots, and the natives hold three.
FillDecls == GROW_CAPACITY(GROW_CAPACITY(0)) - Len(<< "clock", "input", "num" >>) - 1

\* var a; var b; ... (FillDecls declarations)  z = 1;
UnsetScript ==
    Function(<<>>, 0, 0,
        [i \in 1..(2 * FillDecls) |->
            IF i % 2 = 1 THEN Op("OP_NIL") ELSE Op1("OP_DEFINE_GLOBAL", (i \div 2) - 1)]
        \o << Op1("OP_CONSTANT", FillDecls + 1), Op1("OP_SET_GLOBAL", FillDecls),
              Op("OP_POP"), Op("OP_NIL"), Op("OP_RETURN") >>,
        [i \in 1..FillDecls |-> Str(<<96 + i>>)] \o << Str(<<122>>), Num(1) >>)

\* How deep the expression of the deep program nests.
Depth == 300

\* fun f() { nil == (nil == ( ... (nil == f()) ... )); }  f();
\* with Depth operands waiting on the stack when f calls itself.
DeepScript ==
    Function(<<>>, 0, 0,
        << ClosureInstr(1, <<>>), Op1("OP_DEFINE_GLOBAL", 0),
           Op1("OP_GET_GLOBAL", 2), Op1("OP_CALL", 0), Op("OP_POP"),
           Op("OP_NIL"), Op("OP_RETURN") >>,
        << Str(<<102>>), Fun(15), Str(<<102>>) >>)

DeepF ==
    Function(<<102>>, 0, 0,
        [i \in 1..Depth |-> Op("OP_NIL")]
        \o << Op1("OP_GET_GLOBAL", 0), Op1("OP_CALL", 0) >>
        \o [i \in 1..Depth |-> Op("OP_EQUAL")]
        \o << Op("OP_POP"), Op("OP_NIL"), Op("OP_RETURN") >>,
        << Str(<<102>>) >>)

(***************************************************************************)
(* The single-pass compiler (compiler.c).  The scanner hands it the tokens *)
(* of the source one by one and TOKEN_EOF from the end on.  The parser     *)
(* record holds the scanner's position (tokens, pos), parser.current,      *)
(* parser.previous, parser.hadError, parser.panicMode, the chunk being     *)
(* written (code, constants), what was printed on stderr (reported) and    *)
(* the value the last makeConstant returned (constant).  It also records   *)
(* where in code each declaration starts (marks), every errorAt call       *)
(* (calls), the number of synchronize calls (synchronized), the number of  *)
(* compile calls (pass), where compile is (phase) and what it returned     *)
(* (ok).                                                                   *)
(***************************************************************************)
Tok(type, chars) == [type |-> type, chars |-> chars]

\* The tokens of the sources below, with their lexemes.
LEFT_PAREN == Tok("TOKEN_LEFT_PAREN", <<40>>)
RIGHT_PAREN == Tok("TOKEN_RIGHT_PAREN", <<41>>)
MINUS == Tok("TOKEN_MINUS", <<45>>)
PLUS == Tok("TOKEN_PLUS", <<43>>)
SEMICOLON == Tok("TOKEN_SEMICOLON", <<59>>)
SLASH == Tok("TOKEN_SLASH", <<47>>)
STAR == Tok("TOKEN_STAR", <<42>>)
BANG == Tok("TOKEN_BANG", <<33>>)
BANG_EQUAL == Tok("TOKEN_BANG_EQUAL", <<33, 61>>)
EQUAL == Tok("TOKEN_EQUAL", <<61>>)
EQUAL_EQUAL == Tok("TOKEN_EQUAL_EQUAL", <<61, 61>>)
GREATER == Tok("TOKEN_GREATER", <<62>>)
GREATER_EQUAL == Tok("TOKEN_GREATER_EQUAL", <<62, 61>>)
LESS == Tok("TOKEN_LESS", <<60>>)
LESS_EQUAL == Tok("TOKEN_LESS_EQUAL", <<60, 61>>)
AND == Tok("TOKEN_AND", <<97, 110, 100>>)
FALSE_ == Tok("TOKEN_FALSE", <<102, 97, 108, 115, 101>>)
NIL == Tok("TOKEN_NIL", <<110, 105, 108>>)
OR == Tok("TOKEN_OR", <<111, 114>>)
PRINT == Tok("TOKEN_PRINT", <<112, 114, 105, 110, 116>>)
TRUE_ == Tok("TOKEN_TRUE", <<116, 114, 117, 101>>)
VAR == Tok("TOKEN_VAR", <<118, 97, 114>>)
EOF == Tok("TOKEN_EOF", <<>>)

\* An identifier, a number literal of one digit, a string literal (the lexeme
\* has the quotes), and the error token of an unexpected character.
Identifier(chars) == Tok("TOKEN_IDENTIFIER", chars)
Digit(n) == Tok("TOKEN_NUMBER", <<48 + n>>)
Quoted(chars) == Tok("TOKEN_STRING", <<34>> \o chars \o <<34>>)
ERROR == Tok("TOKEN_ERROR", <<85, 110, 101, 120, 112, 101, 99, 116, 101, 100>>)

\* Parser parser: a zeroed global.
ZeroToken == Tok("", <<>>)

NoParser ==
    [tokens |-> <<>>, pos |-> 1, current |-> ZeroToken, previous |-> ZeroToken,
     hadError |-> FALSE, panicMode |-> FALSE, code |-> <<>>, constants |-> <<>>,
     reported |-> <<>>, constant |-> 0, marks |-> <<>>, calls |-> <<>>,
     synchronized |-> 0, pass |-> 0, phase |-> "idle", ok |-> TRUE]

\* Precedence
PREC_NONE == 0
PREC_ASSIGNMENT == 1
PREC_OR == 2
PREC_AND == 3
PREC_EQUALITY == 4
PREC_COMPARISON == 5
PREC_TERM == 6
PREC_FACTOR == 7
PREC_UNARY == 8
PREC_CALL == 9
PREC_PRIMARY == 10

UINT8_MAX == 255

\* An errorAt call, recorded: whether panicMode was set when it was made, and
\* whether it left the parser and stderr as they were.  (synchronize records
\* its calls in the same list.)
Called(before, after, token, message) ==
    [after EXCEPT !.calls = Append(@, [kind |-> "errorAt",
                                        panicMode |-> before.panicMode,
                                        silent |-> after = before,
                                        token |-> token, message |-> message])]

\* errorAt without the panicMode test.
errorAt_Always(c, token, message) ==
    Called(c, [c EXCEPT !.panicMode = TRUE,
                        !.reported = Append(@, [token |-> token, message |-> message]),
                        !.hadError = TRUE], token, message)

\* errorAt
errorAt(c, token, message) ==
    Called(c, IF c.panicMode THEN c
              ELSE [c EXCEPT !.panicMode = TRUE,
                             !.reported = Append(@, [token |-> token,
                                                     message |-> message]),
                             !.hadError = TRUE], token, message)

error(c, message) == errorAt(c, c.previous, message)
errorAtCurrent(c, message) == errorAt(c, c.current, message)

\* scanToken, assigned to parser.current.
scanToken(c) ==
    IF c.pos > Len(c.tokens) THEN [c EXCEPT !.current = EOF]
    ELSE [c EXCEPT !.current = c.tokens[c.pos], !.pos = @ + 1]

\* The loop of advance, from the token just scanned.
RECURSIVE AdvanceLoop(_)
AdvanceLoop(c) ==
    IF c.current.type # "TOKEN_ERROR" THEN c
    ELSE AdvanceLoop(scanToken(errorAtCurrent(c, c.current.chars)))

\* advance
advance(c) == AdvanceLoop(scanToken([c EXCEPT !.previous = c.current]))

\* consume
consume(c, type, message) ==
    IF c.current.type = type THEN advance(c) ELSE errorAtCurrent(c, message)

\* check; match is check and, on a hit, advance.
check(c, type) == c.current.type = type

\* emitByte: an opcode without operand.
emitByte(c, byte) == [c EXCEPT !.code = Append(@, Op(byte))]

\* emitBytes: an opcode and its one-byte operand.
emitBytes(c, byte1, byte2) == [c EXCEPT !.code = Append(@, Op1(byte1, byte2))]

\* makeConstant once addConstant has added the value.
MakeConstantAdded(c) ==
    IF Len(c.constants) - 1 > UINT8_MAX
    THEN [error(c, "Too many constants in one chunk.") EXCEPT !.constant = 0]
    ELSE [c EXCEPT !.constant = Len(c.constants) - 1]

\* makeConstant without the limit: the index is cut to its low byte.
makeConstant_Wraps(c, value) ==
    [c EXCEPT !.constants = Append(@, value),
              !.constant = Len(c.constants) % (UINT8_MAX + 1)]

\* makeConstant: the index it returns is left in constant.
makeConstant(c, value) == MakeConstantAdded([c EXCEPT !.constants = Append(@, value)])

\* emitBytes(op, makeConstant(value)), once makeConstant has returned.
EmitLastConstant(c, op) == emitBytes(c, op, c.constant)

\* emitConstant
emitConstant(c, value) == EmitLastConstant(makeConstant(c, value), "OP_CONSTANT")

\* strtod on the digits of a number lexeme.
RECURSIVE strtod(_)
strtod(chars) ==
    IF chars = <<>> THEN 0
    ELSE 10 * strtod(SubSeq(chars, 1, Len(chars) - 1)) + (chars[Len(chars)] - 48)

\* The parse rules: [prefix, infix, precedence], "NULL" for no function.
ParseRule(prefix, infix, precedence) ==
    [prefix |-> prefix, infix |-> infix, precedence |-> precedence]

\* rules / getRule
getRule(type) ==
    CASE type = "TOKEN_LEFT_PAREN" -> ParseRule("grouping", "NULL", PREC_NONE)
      [] type = "TOKEN_MINUS" -> ParseRule("unary", "binary", PREC_TERM)
      [] type = "TOKEN_PLUS" -> ParseRule("NULL", "binary", PREC_TERM)
      [] type = "TOKEN_SLASH" -> ParseRule("NULL", "binary", PREC_FACTOR)
      [] type = "TOKEN_STAR" -> ParseRule("NULL", "binary", PREC_FACTOR)
      [] type = "TOKEN_BANG" -> ParseRule("unary", "NULL", PREC_NONE)
      [] type = "TOKEN_BANG_EQUAL" -> ParseRule("NULL", "binary", PREC_EQUALITY)
      [] type = "TOKEN_EQUAL_EQUAL" -> ParseRule("NULL", "binary", PREC_EQUALITY)
      [] type = "TOKEN_GREATER" -> ParseRule("NULL", "binary", PREC_COMPARISON)
      [] type = "TOKEN_GREATER_EQUAL" -> ParseRule("NULL", "binary", PREC_COMPARISON)
      [] type = "TOKEN_LESS" -> ParseRule("NULL", "binary", PREC_COMPARISON)
      [] type = "TOKEN_LESS_EQUAL" -> ParseRule("NULL", "binary", PREC_COMPARISON)
      [] type = "TOKEN_IDENTIFIER" -> ParseRule("variable", "NULL", PREC_NONE)
      [] type = "TOKEN_STRING" -> ParseRule("string", "NULL", PREC_NONE)
      [] type = "TOKEN_NUMBER" -> ParseRule("number", "NULL", PREC_NONE)
      [] type = "TOKEN_FALSE" -> ParseRule("literal", "NULL", PREC_NONE)
      [] type = "TOKEN_NIL" -> ParseRule("literal", "NULL", PREC_NONE)
      [] type = "TOKEN_TRUE" -> ParseRule("literal", "NULL", PREC_NONE)
      [] OTHER -> ParseRule("NULL", "NULL", PREC_NONE)

RECURSIVE parsePrecedence(_, _), InfixLoop(_, _), CallRule(_, _)

\* expression
expression(c) == parsePrecedence(c, PREC_ASSIGNMENT)

\* The switch of binary, after the right operand.
BinaryEmit(c, operatorType) ==
    CASE operatorType = "TOKEN_BANG_EQUAL" -> emitByte(emitByte(c, "OP_EQUAL"), "OP_NOT")
      [] operatorType = "TOKEN_EQUAL_EQUAL" -> emitByte(c, "OP_EQUAL")
      [] operatorType = "TOKEN_GREATER" -> emitByte(c, "OP_GREATER")
      [] operatorType = "TOKEN_GREATER_EQUAL" -> emitByte(emitByte(c, "OP_LESS"), "OP_NOT")
      [] operatorType = "TOKEN_LESS" -> emitByte(c, "OP_LESS")
      [] operatorType = "TOKEN_LESS_EQUAL" -> emitByte(emitByte(c, "OP_GREATER"), "OP_NOT")
      [] operatorType = "TOKEN_PLUS" -> emitByte(c, "OP_ADD")
      [] operatorType = "TOKEN_MINUS" -> emitByte(c, "OP_SUBTRACT")
      [] operatorType = "TOKEN_STAR" -> emitByte(c, "OP_MULTIPLY")
      [] operatorType = "TOKEN_SLASH" -> emitByte(c, "OP_DIVIDE")
      [] OTHER -> c

\* binary that parses its right operand at the operator's own precedence.
binary_SamePrecedence(c) ==
    BinaryEmit(parsePrecedence(c, getRule(c.previous.type).precedence), c.previous.type)

\* binary
binary(c) ==
    BinaryEmit(parsePrecedence(c, getRule(c.previous.type).precedence + 1),
               c.previous.type)

\* literal
literal(c) ==
    CASE c.previous.type = "TOKEN_FALSE" -> emitByte(c, "OP_FALSE")
      [] c.previous.type = "TOKEN_NIL" -> emitByte(c, "OP_NIL")
      [] c.previous.type = "TOKEN_TRUE" -> emitByte(c, "OP_TRUE")
      [] OTHER -> c

\* grouping
grouping(c) == consume(expression(c), "TOKEN_RIGHT_PAREN", "Expect ')' after expression.")

\* number, string
number(c) == emitConstant(c, Num(strtod(c.previous.chars)))
string(c) == emitConstant(c, Str(SubSeq(c.previous.chars, 2, Len(c.previous.chars) - 1)))

\* identifierConstant, namedVariable, variable, defineVariable
identifierConstant(c, name) == makeConstant(c, Str(name.chars))
namedVariable(c, name) == EmitLastConstant(identifierConstant(c, name), "OP_GET_GLOBAL")
variable(c) == namedVariable(c, c.previous)
defineVariable(c, global) == emitBytes(c, "OP_DEFINE_GLOBAL", global)

\* The switch of unary, after the operand.
UnaryEmit(c, operatorType) ==
    CASE operatorType = "TOKEN_BANG" -> emitByte(c, "OP_NOT")
      [] operatorType = "TOKEN_MINUS" -> emitByte(c, "OP_NEGATE")
      [] OTHER -> c

\* unary
unary(c) == UnaryEmit(parsePrecedence(c, PREC_UNARY), c.previous.type)

\* A call through a ParseFn.
CallRule(c, fn) ==
    CASE fn = "grouping" -> grouping(c)
      [] fn = "unary" -> unary(c)
      [] fn = "binary" -> binary(c)
      [] fn = "variable" -> variable(c)
      [] fn = "string" -> string(c)
      [] fn = "number" -> number(c)
      [] fn = "literal" -> literal(c)

\* The while loop of parsePrecedence.
InfixLoop(c, precedence) ==
    IF precedence <= getRule(c.current.type).precedence
    THEN InfixLoop(CallRule(advance(c), getRule(c.current.type).infix), precedence)
    ELSE c

\* parsePrecedence after its advance.
ParsePrefix(c, precedence) ==
    IF getRule(c.previous.type).prefix = "NULL" THEN error(c, "Expect expression.")
    ELSE InfixLoop(CallRule(c, getRule(c.previous.type).prefix), precedence)

\* parsePrecedence
parsePrecedence(c, precedence) == ParsePrefix(advance(c), precedence)

\* parseVariable: the index it returns is left in constant.
ParseVariableConsumed(c) == identifierConstant(c, c.previous)

parseVariable(c, errorMessage) ==
    ParseVariableConsumed(consume(c, "TOKEN_IDENTIFIER", errorMessage))

\* varDecleration once parseVariable has returned global.
VarDeclerationOf(c, global) ==
    defineVariable(
        consume(IF check(c, "TOKEN_EQUAL") THEN expression(advance(c))
                ELSE emitByte(c, "OP_NIL"),
                "TOKEN_SEMICOLON", "Expect ';' after variable decleration."),
        global)

VarDeclerationParsed(c) == VarDeclerationOf(c, c.constant)

\* varDecleration
varDecleration(c) == VarDeclerationParsed(parseVariable(c, "Expect variable name."))

\* expressionStatement without the trailing OP_POP.
expressionStatement_NoPop(c) ==
    consume(expression(c), "TOKEN_SEMICOLON", "Expect ';' after expression.")

\* expressionStatement
expressionStatement(c) ==
    emitByte(consume(expression(c), "TOKEN_SEMICOLON", "Expect ';' after expression."),
             "OP_POP")

\* printStatement
printStatement(c) ==
    emitByte(consume(expression(c), "TOKEN_SEMICOLON", "Expect ';' after value."),
             "OP_PRINT")

\* statement
statement(c) ==
    IF check(c, "TOKEN_PRINT") THEN printStatement(advance(c)) ELSE expressionStatement(c)

\* The loop of synchronize.
RECURSIVE SynchronizeLoop(_)
SynchronizeLoop(c) ==
    IF c.current.type = "TOKEN_EOF" THEN c
    ELSE IF c.previous.type = "TOKEN_SEMICOLON" THEN c
    ELSE IF c.current.type \in {"TOKEN_CLASS", "TOKEN_FUN", "TOKEN_VAR", "TOKEN_FOR",
                                "TOKEN_IF", "TOKEN_WHILE", "TOKEN_PRINT", "TOKEN_RETURN"}
         THEN c
         ELSE SynchronizeLoop(advance(c))

\* synchronize that leaves panicMode as it finds it.
synchronize_KeepsPanic(c) ==
    SynchronizeLoop([c EXCEPT !.synchronized = @ + 1,
                              !.calls = Append(@, [kind |-> "synchronize",
                                                   panicMode |-> c.panicMode,
                                                   silent |-> FALSE,
                                                   token |-> ZeroToken,
                                                   message |-> ""])])

\* synchronize
synchronize(c) ==
    SynchronizeLoop([c EXCEPT !.panicMode = FALSE, !.synchronized = @ + 1,
                              !.calls = Append(@, [kind |-> "synchronize",
                                                   panicMode |-> c.panicMode,
                                                   silent |-> FALSE,
                                                   token |-> ZeroToken,
                                                   message |-> ""])])

\* The end of decleration: if (parser.panicMode) synchronize();
Synchronized(c) == IF c.panicMode THEN synchronize(c) ELSE c

\* The start of the declaration's code, marked.
Marked(c) == [c EXCEPT !.marks = Append(@, Len(c.code) + 1)]

\* decleration
decleration(c) ==
    Synchronized(IF check(c, "TOKEN_VAR") THEN varDecleration(advance(Marked(c)))
                 ELSE statement(Marked(c)))

\* endCompiler: the implicit return of the script, its start marked as well.
endCompiler(c) == emitByte(emitByte(Marked(c), "OP_NIL"), "OP_RETURN")

\* The start of compile: the scanner and the chunk are new, the flags are
\* reset, and the first token is scanned.
CompileBegin(c, source) ==
    advance([c EXCEPT !.tokens = source, !.pos = 1, !.code = <<>>, !.constants = <<>>,
                      !.hadError = FALSE, !.panicMode = FALSE,
                      !.reported = <<>>, !.marks = <<>>, !.calls = <<>>,
                      !.synchronized = 0, !.constant = 0, !.pass = @ + 1,
                      !.phase = "declerations"])

\* The end of compile: TOKEN_EOF is matched, endCompiler, return !hadError.
CompileEnd(c) ==
    [endCompiler(advance(c)) EXCEPT !.phase = "done", !.ok = ~c.hadError]

\* The loop of compile: declarations until TOKEN_EOF is matched.
RECURSIVE Declerations(_)
Declerations(c) ==
    IF check(c, "TOKEN_EOF") THEN CompileEnd(c) ELSE Declerations(decleration(c))

\* compile (compiler.c), on the tokens of the source.
CompileSource(source) == Declerations(CompileBegin(NoParser, source))

\* var x = 1 + 2 * 3;  var y;  print x - 1 < 4 == !false;  -x;
\* print "a" + "b" != nil;  x >= 2;  print (x <= 2) == (true == true);  y;
StatementsSource ==
    << VAR, Identifier(<<120>>), EQUAL, Digit(1), PLUS, Digit(2), STAR, Digit(3), SEMICOLON,
       VAR, Identifier(<<121>>), SEMICOLON,
       PRINT, Identifier(<<120>>), MINUS, Digit(1), LESS, Digit(4), EQUAL_EQUAL, BANG,
           FALSE_, SEMICOLON,
       MINUS, Identifier(<<120>>), SEMICOLON,
       PRINT, Quoted(<<97>>), PLUS, Quoted(<<98>>), BANG_EQUAL, NIL, SEMICOLON,
       Identifier(<<120>>), GREATER_EQUAL, Digit(2), SEMICOLON,
       PRINT, LEFT_PAREN, Identifier(<<120>>), LESS_EQUAL, Digit(2), RIGHT_PAREN,
           EQUAL_EQUAL, LEFT_PAREN, TRUE_, EQUAL_EQUAL, TRUE_, RIGHT_PAREN, SEMICOLON,
       Identifier(<<121>>), SEMICOLON >>

StatementsChunk == CompileSource(StatementsSource)

\* The script function of a compiled chunk.
Script(chunk) ==
    [Function(<<>>, 0, 0, chunk.code, chunk.constants) EXCEPT !.hadError = ~chunk.ok]

StatementsScript == Script(StatementsChunk)

\* print !nil; print !false; print !true; print !0; print !1; print !"";
\* print !"a"; print !clock;
TruthSource ==
    << PRINT, BANG, NIL, SEMICOLON,
       PRINT, BANG, FALSE_, SEMICOLON,
       PRINT, BANG, TRUE_, SEMICOLON,
       PRINT, BANG, Digit(0), SEMICOLON,
       PRINT, BANG, Digit(1), SEMICOLON,
       PRINT, BANG, Quoted(<<>>), SEMICOLON,
       PRINT, BANG, Quoted(<<97>>), SEMICOLON,
       PRINT, BANG, Identifier(<<99, 108, 111, 99, 107>>), SEMICOLON >>

TruthScript == Script(CompileSource(TruthSource))

\* print nil == 1; print "a" != 1; print true == nil; print clock == "a";
\* print 1 != 1; print "a" == "a"; print nil != nil; print false == 0;
\* print clock == clock; print "" != false;
EqualitySource ==
    << PRINT, NIL, EQUAL_EQUAL, Digit(1), SEMICOLON,
       PRINT, Quoted(<<97>>), BANG_EQUAL, Digit(1), SEMICOLON,
       PRINT, TRUE_, EQUAL_EQUAL, NIL, SEMICOLON,
       PRINT, Identifier(<<99, 108, 111, 99, 107>>), EQUAL_EQUAL, Quoted(<<97>>), SEMICOLON,
       PRINT, Digit(1), BANG_EQUAL, Digit(1), SEMICOLON,
       PRINT, Quoted(<<97>>), EQUAL_EQUAL, Quoted(<<97>>), SEMICOLON,
       PRINT, NIL, BANG_EQUAL, NIL, SEMICOLON,
       PRINT, FALSE_, EQUAL_EQUAL, Digit(0), SEMICOLON,
       PRINT, Identifier(<<99, 108, 111, 99, 107>>), EQUAL_EQUAL,
           Identifier(<<99, 108, 111, 99, 107>>), SEMICOLON,
       PRINT, Quoted(<<>>), BANG_EQUAL, FALSE_, SEMICOLON >>

EqualityScript == Script(CompileSource(EqualitySource))

\* print true and 1;
AndSource == << PRINT, TRUE_, AND, Digit(1), SEMICOLON >>
AndScript == Script(CompileSource(AndSource))

\* print nil or 1;
OrSource == << PRINT, NIL, OR, Digit(1), SEMICOLON >>
OrScript == Script(CompileSource(OrSource))

\* print 1 + 2; print "a" + "b"; print "a" + 1;
AddSource ==
    << PRINT, Digit(1), PLUS, Digit(2), SEMICOLON,
       PRINT, Quoted(<<97>>), PLUS, Quoted(<<98>>), SEMICOLON,
       PRINT, Quoted(<<97>>), PLUS, Digit(1), SEMICOLON >>

AddScript == Script(CompileSource(AddSource))

\* print z;
UndefinedSource == << PRINT, Identifier(<<122>>), SEMICOLON >>
UndefinedScript == Script(CompileSource(UndefinedSource))

\* print z;  followed by a character that is no token.
StraySource == UndefinedSource \o << ERROR >>
StrayScript == Script(CompileSource(StraySource))

\* if (condition) print true; else print false;
IfStatement(condition) ==
    << condition, Op1("OP_JUMP_IF_FALSE", 4), Op("OP_POP"), Op("OP_TRUE"), Op("OP_PRINT"),
       Op1("OP_JUMP", 3), Op("OP_POP"), Op("OP_FALSE"), Op("OP_PRINT") >>

\* The if statement above on nil, false, true, 0, 1, "", "a" and clock.
BranchScript ==
    Function(<<>>, 0, 0,
        IfStatement(Op("OP_NIL")) \o IfStatement(Op("OP_FALSE"))
        \o IfStatement(Op("OP_TRUE")) \o IfStatement(Op1("OP_CONSTANT", 0))
        \o IfStatement(Op1("OP_CONSTANT", 1)) \o IfStatement(Op1("OP_CONSTANT", 2))
        \o IfStatement(Op1("OP_CONSTANT", 3)) \o IfStatement(Op1("OP_GET_GLOBAL", 4))
        \o << Op("OP_NIL"), Op("OP_RETURN") >>,
        << Num(0), Num(1), Str(<<>>), Str(<<97>>), Str(<<99, 108, 111, 99, 107>>) >>)

\* Every function, by function id, and every program: its functions, script first.
FnTable ==
    << FourGlobals, ClosuresScript, ClosuresGet, ClosuresSet, RecursionScript,
       RecursionF, ArityScript, ArityF, FaultScript, FaultBad, DeclsScript, MiscScript,
       StatementsScript, DeepScript, DeepF, TruthScript, BranchScript,
       EqualityScript, AndScript, OrScript, AddScript, UnsetScript, UndefinedScript,
       StrayScript, NativeScript, NestScript, NestOuter, NestH, NestG,
       LeakScript, LeakGet, ReadScript, StaleScript >>

Programs ==
    << <<1>>, <<2, 3, 4>>, <<5, 6>>, <<7, 8>>, <<9, 10>>, <<11>>, <<12>>, <<13>>,
       <<14, 15>>, <<16>>, <<17>>, <<18>>, <<19>>, <<20>>, <<21>>,
       <<22>>, <<23>>, <<24>>, <<25>>,
       <<26, 27, 28, 29>>, <<30, 31>>, <<32>>, <<33>> >>

\* The deep program, and the programs a session draws from.
ProgramOf(fid) == CHOOSE p \in DOMAIN Programs : Programs[p][1] = fid
DeepProgram == ProgramOf(14)
NestProgram == ProgramOf(26)
ClosuresProgram == ProgramOf(2)
FaultProgram == ProgramOf(9)
LeakProgram == ProgramOf(30)
ReadProgram == ProgramOf(32)
StaleProgram == ProgramOf(33)
SessionPrograms ==
    (DOMAIN Programs)
    \ {DeepProgram, NestProgram, LeakProgram, ReadProgram, StaleProgram}

FunctionOf(h, closure) == compiled[h[h[closure].function].function]
ConstantsOf(h, closure) == h[h[closure].function].constants

(***************************************************************************)
(* The VM (vm.c).  Its operations are written on a machine record M that   *)
(* gathers the variables; Apply assigns a machine record to the next       *)
(* state.                                                                  *)
(***************************************************************************)
FRAMES_MAX == 64
UINT8_COUNT == 256
STACK_MAX == FRAMES_MAX * UINT8_COUNT

\* The location of a closed upvalue: its own closed field.
Closed == 0 - 1

M == [heap |-> heap, strings |-> strings, globals |-> globals, stack |-> stack,
      stackTop |-> stackTop, frames |-> frames, openUpvalues |-> openUpvalues,
      status |-> status, result |-> result, errors |-> errors, output |-> output,
      gen |-> gen, ref |-> ref]

Apply(m) ==
    /\ heap' = m.heap
    /\ strings' = m.strings
    /\ globals' = m.globals
    /\ stack' = m.stack
    /\ stackTop' = m.stackTop
    /\ frames' = m.frames
    /\ openUpvalues' = m.openUpvalues
    /\ status' = IF m.stackTop > STACK_MAX THEN "undefined" ELSE m.status
    /\ result' = m.result
    /\ errors' = m.errors
    /\ output' = m.output
    /\ gen' = m.gen
    /\ ref' = m.ref

\* The reference binding of a global name.
RefGet(r, key) == IF key \in DOMAIN r THEN r[key] ELSE Absent
RefSet(r, key, value) == [k \in (DOMAIN r) \cup {key} |-> IF k = key THEN value ELSE r[k]]

\* The binding of key in table, read off the entry array.
Binding(table, key) ==
    LET hits == {i \in 1..Len(table.entries) : table.entries[i].key = key}
    IN  IF hits = {} THEN Absent ELSE table.entries[CHOOSE i \in hits : TRUE].value

\* gen: the slots in lo .. hi-1 are popped.
GenOf(g, slot) == IF slot \in DOMAIN g THEN g[slot] ELSE 0
Kill(g, lo, hi) == [k \in DOMAIN g |-> IF k >= lo /\ k < hi THEN g[k] + 1 ELSE g[k]]

\* The stack array vm.stack, as far as it has been written, is kept run-length
\* encoded: a sequence of runs [v, n], n consecutive slots holding v, with no
\* two adjacent runs of the same value.
Run1(value, n) == [v |-> value, n |-> n]

RECURSIVE StackLen(_)
StackLen(st) == IF st = <<>> THEN 0 ELSE st[1].n + StackLen(Tail(st))

\* vm.stack[i]
RECURSIVE StackAt(_, _)
StackAt(st, i) == IF i < st[1].n THEN st[1].v ELSE StackAt(Tail(st), i - st[1].n)

\* The runs rs with adjacent runs of one value merged and empty runs dropped.
RECURSIVE Merge(_)
Merge(rs) ==
    IF rs = <<>> THEN <<>>
    ELSE IF rs[1].n = 0 THEN Merge(Tail(rs))
    ELSE IF Len(rs) = 1 THEN rs
    ELSE IF rs[2].n = 0 THEN Merge(<<rs[1]>> \o Tail(Tail(rs)))
    ELSE IF rs[1].v = rs[2].v
         THEN Merge(<< Run1(rs[1].v, rs[1].n + rs[2].n) >> \o Tail(Tail(rs)))
         ELSE << rs[1] >> \o Merge(Tail(rs))

\* vm.stack[i] = value, in the runs from the one that starts at slot 0.
RECURSIVE StackPut(_, _, _)
StackPut(st, i, value) ==
    IF st = <<>> THEN << Run1(value, 1) >>
    ELSE IF i < st[1].n
         THEN << Run1(st[1].v, i), Run1(value, 1), Run1(st[1].v, st[1].n - i - 1) >>
              \o Tail(st)
         ELSE << st[1] >> \o StackPut(Tail(st), i - st[1].n, value)

\* Slot i of the stack array (0-based); the array is written one slot at a time.
StackWrite(st, i, value) == Merge(StackPut(st, i, value))

push(m, value) ==
    [m EXCEPT !.stack = StackWrite(m.stack, m.stackTop, value), !.stackTop = @ + 1]

pop(m) == [m EXCEPT !.stackTop = @ - 1, !.gen = Kill(@, m.stackTop - 1, m.stackTop)]

peek(m, distance) == StackAt(m.stack, m.stackTop - 1 - distance)

\* resetStack that leaves the frame count alone.
resetStack_KeepFrames(m) ==
    [m EXCEPT !.stackTop = 0, !.openUpvalues = NULL, !.gen = Kill(@, 0, m.stackTop)]

\* resetStack
resetStack(m) ==
    [m EXCEPT !.stackTop = 0, !.frames = <<>>, !.openUpvalues = NULL,
              !.gen = Kill(@, 0, m.stackTop)]

\* runtimeError: the message is reported, then the stacks are reset.
runtimeError(m, msg, args) ==
    resetStack([m EXCEPT !.errors = Append(@, [msg |-> msg, args |-> args])])

\* run returning INTERPRET_RUNTIME_ERROR.
ReturnError(m) == [m EXCEPT !.result = "RUNTIME_ERROR", !.status = "idle"]

Hang(m) == [m EXCEPT !.status = "hung"]

\* isFalsey for which false is truthy.
isFalsey_NilOnly(value) == IS_NIL(value)

\* isFalsey for which the number 0 is falsey as well.
isFalsey_ZeroFalsey(value) ==
    IS_NIL(value) \/ (IS_BOOL(value) /\ ~AS_BOOL(value)) \/ value = NUMBER_VAL(0)

\* isFalsey
isFalsey(value) == IS_NIL(value) \/ (IS_BOOL(value) /\ ~AS_BOOL(value))

\* valuesEqual
valuesEqual(a, b) == a.t = b.t /\ (IS_NIL(a) \/ a.v = b.v)

\* newClosure, newUpvalue, newFunction
ClosureObj(function, upvalueCount) ==
    [BlankObj EXCEPT !.type = "closure", !.function = function,
                     !.upvalues = [i \in 1..upvalueCount |-> NULL],
                     !.captured = [i \in 1..upvalueCount |-> <<0, 0>>]]
UpvalueObj(slot) == [BlankObj EXCEPT !.type = "upvalue", !.location = slot]
FunctionObj(fid) == [BlankObj EXCEPT !.type = "function", !.function = fid]

\* call that sets the frame's window at the first argument.
call_AtFirstArgument(m, closure, argCount, arity) ==
    IF argCount # arity
    THEN [m |-> runtimeError(m, "Expected %d arguments but got %d.", <<arity, argCount>>),
          ok |-> FALSE]
    ELSE IF Len(m.frames) = FRAMES_MAX
         THEN [m |-> runtimeError(m, "Stack overflow.", <<>>), ok |-> FALSE]
         ELSE [m |-> [m EXCEPT !.frames =
                         Append(@, [closure |-> closure, ip |-> 1,
                                    slots |-> m.stackTop - argCount])],
               ok |-> TRUE]

\* call without the arity test.
call_AnyArity(m, closure, argCount, arity) ==
    IF Len(m.frames) = FRAMES_MAX
    THEN [m |-> runtimeError(m, "Stack overflow.", <<>>), ok |-> FALSE]
    ELSE [m |-> [m EXCEPT !.frames =
                    Append(@, [closure |-> closure, ip |-> 1,
                               slots |-> m.stackTop - argCount - 1])],
          ok |-> TRUE]

\* call without the frame-count test.
call_AnyDepth(m, closure, argCount, arity) ==
    IF argCount # arity
    THEN [m |-> runtimeError(m, "Expected %d arguments but got %d.", <<arity, argCount>>),
          ok |-> FALSE]
    ELSE [m |-> [m EXCEPT !.frames =
                    Append(@, [closure |-> closure, ip |-> 1,
                               slots |-> m.stackTop - argCount - 1])],
          ok |-> TRUE]

\* call: a new frame for closure, or a runtime error.  [m, ok]
call(m, closure, argCount, arity) ==
    IF argCount # arity
    THEN [m |-> runtimeError(m, "Expected %d arguments but got %d.", <<arity, argCount>>),
          ok |-> FALSE]
    ELSE IF Len(m.frames) = FRAMES_MAX
         THEN [m |-> runtimeError(m, "Stack overflow.", <<>>), ok |-> FALSE]
         ELSE [m |-> [m EXCEPT !.frames =
                         Append(@, [closure |-> closure, ip |-> 1,
                                    slots |-> m.stackTop - argCount - 1])],
               ok |-> TRUE]

\* What a native call meets outside the VM: the processor time used so far,
\* the next line of stdin (eof: there is none), and, where the native's own
\* code is undefined, whether the process survives it (fault: it does not)
\* and the number it then computes.
Clocks == {0, 1}
Lines == { <<10>>, <<49, 10>> }
Environments == [clock : Clocks, line : Lines, eof : BOOLEAN, fault : BOOLEAN]

\* args[i], args an index into vm.stack; the array is static storage, so a
\* slot never written holds zero bytes, which no String is.
ArgAt(m, args, i) ==
    IF args + i < StackLen(m.stack) THEN StackAt(m.stack, args + i) ELSE BOOL_VAL(FALSE)

\* The outcomes of a native whose code is undefined on its input: the process
\* is lost, or it goes on with some result.
UndefinedNative(m, env, value) ==
    IF env.fault THEN [m |-> [m EXCEPT !.status = "undefined"], result |-> value]
    ELSE [m |-> m, result |-> value]

\* The indexes i of the args[i] a native reads: clockNative none, inputNative
\* and numNative args[0].
ArgsRead(fn) == IF fn = "clock" THEN {} ELSE {0}

\* clockNative: [m, result]
clockNative(m, argCount, args, env) == [m |-> m, result |-> NUMBER_VAL(env.clock)]

\* The line fgets has stored: with no line left it stores nothing, and
\* strlen measures what the array happened to hold.
InputRead(m, env) ==
    LET s == copyString(m.heap, m.strings, IF env.eof THEN <<>> ELSE env.line)
        m2 == [m EXCEPT !.heap = s.heap, !.strings = s.strings]
    IN  IF env.eof THEN UndefinedNative(m2, env, OBJ_VAL(s.handle))
        ELSE [m |-> m2, result |-> OBJ_VAL(s.handle)]

\* inputNative: [m, result].  The prompt args[0] is printed with %s.
inputNative(m, argCount, args, env) ==
    IF IS_STRING(m.heap, ArgAt(m, args, 0))
    THEN InputRead([m EXCEPT !.output = Append(@, ArgAt(m, args, 0))], env)
    ELSE IF env.fault THEN UndefinedNative(m, env, NIL_VAL)
         ELSE InputRead(m, env)

\* The digits chars begins with: what strtod converts of a text of digits
\* and other characters.
RECURSIVE DigitPrefix(_)
DigitPrefix(chars) ==
    IF chars # <<>> /\ chars[1] >= 48 /\ chars[1] <= 57
    THEN << chars[1] >> \o DigitPrefix(Tail(chars))
    ELSE <<>>

\* numNative: [m, result]
numNative(m, argCount, args, env) ==
    IF IS_STRING(m.heap, ArgAt(m, args, 0))
    THEN [m |-> m,
          result |-> NUMBER_VAL(strtod(DigitPrefix(m.heap[ArgAt(m, args, 0).v].chars)))]
    ELSE UndefinedNative(m, env, NUMBER_VAL(env.clock))

\* native(argCount, args) for the NativeFn fn.
native(m, fn, argCount, args, env) ==
    CASE fn = "clock" -> clockNative(m, argCount, args, env)
      [] fn = "input" -> inputNative(m, argCount, args, env)
      [] fn = "num" -> numNative(m, argCount, args, env)

\* The native branch of callValue, the native having returned r.
NativeReturned(m, argCount, r) ==
    push([r.m EXCEPT !.stackTop = @ - (argCount + 1),
                     !.gen = Kill(@, m.stackTop - (argCount + 1), m.stackTop)],
         r.result)

\* callValue that hands the native its last argument as args.
callValue_ArgsAtTop(m, callee, argCount, env) ==
    IF isObjType(m.heap, callee, "closure")
    THEN call(m, callee.v, argCount, FunctionOf(m.heap, callee.v).arity)
    ELSE IF isObjType(m.heap, callee, "native")
         THEN [m |-> NativeReturned(m, argCount,
                         native(m, m.heap[callee.v].fn, argCount, m.stackTop - 1, env)),
               ok |-> TRUE]
         ELSE [m |-> runtimeError(m, "Can only call functions and classes.", <<>>),
               ok |-> FALSE]

\* callValue: [m, ok]
callValue(m, callee, argCount, env) ==
    IF isObjType(m.heap, callee, "closure")
    THEN call(m, callee.v, argCount, FunctionOf(m.heap, callee.v).arity)
    ELSE IF isObjType(m.heap, callee, "native")
         THEN [m |-> NativeReturned(m, argCount,
                         native(m, m.heap[callee.v].fn, argCount,
                                m.stackTop - argCount, env)),
               ok |-> TRUE]
         ELSE [m |-> runtimeError(m, "Can only call functions and classes.", <<>>),
               ok |-> FALSE]

\* The walk of captureUpvalue: <<prevUpvalue, upvalue>>.
RECURSIVE CaptureWalk(_, _, _, _)
CaptureWalk(h, prevUpvalue, upvalue, local) ==
    IF upvalue # NULL /\ h[upvalue].location > local
    THEN CaptureWalk(h, upvalue, h[upvalue].next, local)
    ELSE <<prevUpvalue, upvalue>>

\* captureUpvalue that never reuses an open upvalue.
captureUpvalue_Fresh(m, local) ==
    [m |-> [m EXCEPT !.heap = Append(@, [UpvalueObj(local) EXCEPT
                                            !.next = m.openUpvalues]),
                     !.openUpvalues = Len(m.heap) + 1],
     upvalue |-> Len(m.heap) + 1]

\* captureUpvalue that links every new upvalue at the head of the list.
captureUpvalue_AtHead(m, local) ==
    LET w == CaptureWalk(m.heap, NULL, m.openUpvalues, local)
        upvalue == w[2]
    IN  IF upvalue # NULL /\ m.heap[upvalue].location = local
        THEN [m |-> m, upvalue |-> upvalue]
        ELSE [m |-> [m EXCEPT !.heap = Append(@, [UpvalueObj(local) EXCEPT
                                                    !.next = m.openUpvalues]),
                              !.openUpvalues = Len(m.heap) + 1],
              upvalue |-> Len(m.heap) + 1]

\* captureUpvalue: [m, upvalue]
captureUpvalue(m, local) ==
    LET w == CaptureWalk(m.heap, NULL, m.openUpvalues, local)
        prevUpvalue == w[1]
        upvalue == w[2]
    IN  IF upvalue # NULL /\ m.heap[upvalue].location = local
        THEN [m |-> m, upvalue |-> upvalue]
        ELSE LET h2 == Append(m.heap, [UpvalueObj(local) EXCEPT !.next = upvalue])
                 created == Len(h2)
             IN  [m |-> IF prevUpvalue = NULL
                        THEN [m EXCEPT !.heap = h2, !.openUpvalues = created]
                        ELSE [m EXCEPT !.heap = [h2 EXCEPT ![prevUpvalue].next = created]],
                  upvalue |-> created]

\* closeUpvalues that leaves the upvalue of the cutoff slot itself open.
RECURSIVE closeUpvalues_Above(_, _)
closeUpvalues_Above(m, last) ==
    IF m.openUpvalues # NULL /\ m.heap[m.openUpvalues].location > last
    THEN LET upvalue == m.openUpvalues
         IN  closeUpvalues_Above(
                 [m EXCEPT !.heap[upvalue].closed = StackAt(m.stack, m.heap[upvalue].location),
                           !.heap[upvalue].location = Closed,
                           !.openUpvalues = m.heap[upvalue].next],
                 last)
    ELSE m

\* closeUpvalues
RECURSIVE closeUpvalues(_, _)
closeUpvalues(m, last) ==
    IF m.openUpvalues # NULL /\ m.heap[m.openUpvalues].location >= last
    THEN LET upvalue == m.openUpvalues
         IN  closeUpvalues(
                 [m EXCEPT !.heap[upvalue].closed = StackAt(m.stack, m.heap[upvalue].location),
                           !.heap[upvalue].location = Closed,
                           !.openUpvalues = m.heap[upvalue].next],
                 last)
    ELSE m

\* *upvalue->location, read and written.
ReadUpvalue(m, upvalue) ==
    IF m.heap[upvalue].location = Closed THEN m.heap[upvalue].closed
    ELSE StackAt(m.stack, m.heap[upvalue].location)

WriteUpvalue(m, upvalue, value) ==
    IF m.heap[upvalue].location = Closed
    THEN [m EXCEPT !.heap[upvalue].closed = value]
    ELSE [m EXCEPT !.stack = StackWrite(@, m.heap[upvalue].location, value)]

(***************************************************************************)
(* interpret: compile, wrap the script in a closure, call it, run.         *)
(***************************************************************************)
\* How many interpret calls one session makes.
MaxRuns == 2

\* The constants of function object fh, resolved one by one: a string
\* constant is interned, a function constant is the nested function object.
RECURSIVE ResolveConstants(_, _, _, _, _)
ResolveConstants(m, base, fh, cs, i) ==
    IF i > Len(cs) THEN [m |-> m, hang |-> FALSE]
    ELSE IF cs[i].k = "str"
         THEN LET r == copyString(m.heap, m.strings, cs[i].chars)
              IN  IF r.hang THEN [m |-> m, hang |-> TRUE]
                  ELSE ResolveConstants(
                           [m EXCEPT !.heap = [r.heap EXCEPT ![fh].constants =
                                                  Append(@, OBJ_VAL(r.handle))],
                                     !.strings = r.strings],
                           base, fh, cs, i + 1)
         ELSE ResolveConstants(
                  [m EXCEPT !.heap[fh].constants =
                      Append(@, IF cs[i].k = "num" THEN NUMBER_VAL(cs[i].n)
                                ELSE OBJ_VAL(base + cs[i].n))],
                  base, fh, cs, i + 1)

RECURSIVE CompileFunctions(_, _, _, _)
CompileFunctions(m, base, fids, i) ==
    IF i > Len(fids) THEN [m |-> m, hang |-> FALSE]
    ELSE LET r == ResolveConstants(m, base, base + fids[i], compiled[fids[i]].constants, 1)
         IN  IF r.hang THEN r ELSE CompileFunctions(r.m, base, fids, i + 1)

\* compile: the function objects of program p, script first.
\* [m, function, hang]
compile(m, p) ==
    LET fids == Programs[p]
        base == Len(m.heap) + 1 - fids[1]
        h2 == m.heap \o [i \in 1..Len(fids) |-> FunctionObj(fids[i])]
        r == CompileFunctions([m EXCEPT !.heap = h2], base, fids, 1)
    IN  [m |-> r.m,
         function |-> IF compiled[fids[1]].hadError THEN NULL ELSE base + fids[1],
         hang |-> r.hang]

Interpreting(p) ==
    /\ status = "idle"
    /\ runs < MaxRuns
    /\ prog' = p
    /\ runs' = runs + 1
    /\ UNCHANGED << ret, parser, compiled >>
    /\ LET c == compile([M EXCEPT !.errors = <<>>, !.output = <<>>], p)
       IN  IF c.hang THEN Apply(Hang(c.m))
           ELSE IF c.function = NULL THEN Apply([c.m EXCEPT !.result = "COMPILE_ERROR"])
           ELSE LET m1 == pop(push(c.m, OBJ_VAL(c.function)))
                    h2 == Append(m1.heap, ClosureObj(c.function, 0))
                    m2 == push([m1 EXCEPT !.heap = h2], OBJ_VAL(Len(h2)))
                    m3 == call(m2, Len(h2), 0, 0).m
                IN  Apply([m3 EXCEPT !.status = "running"])

\* interpret, called on one line after another.
Interpret(p) == Interpreting(p) /\ UNCHANGED process

(***************************************************************************)
(* run: one action per opcode.                                             *)
(***************************************************************************)
frame == frames[Len(frames)]
instruction == FunctionOf(heap, frame.closure).code[frame.ip]

\* READ_BYTE: the machine with the instruction read.
Fetched == [M EXCEPT !.frames[Len(frames)].ip = @ + 1]

READ_CONSTANT == ConstantsOf(heap, frame.closure)[instruction.a + 1]

At(o) == status = "running" /\ instruction.op = o

Step(m) == Apply(m) /\ UNCHANGED << prog, runs, ret, parser, process, compiled >>

OpConstant == At("OP_CONSTANT") /\ Step(push(Fetched, READ_CONSTANT))
OpNil == At("OP_NIL") /\ Step(push(Fetched, NIL_VAL))
OpTrue == At("OP_TRUE") /\ Step(push(Fetched, BOOL_VAL(TRUE)))
OpFalse == At("OP_FALSE") /\ Step(push(Fetched, BOOL_VAL(FALSE)))
OpPop == At("OP_POP") /\ Step(pop(Fetched))

OpGetLocal ==
    At("OP_GET_LOCAL") /\ Step(push(Fetched, StackAt(stack, frame.slots + instruction.a)))

\* OP_SET_LOCAL that pops the value it assigned.
OpSetLocal_Consumes ==
    At("OP_SET_LOCAL") /\
    Step(pop([Fetched EXCEPT !.stack = StackWrite(@, frame.slots + instruction.a, peek(M, 0))]))

OpSetLocal ==
    At("OP_SET_LOCAL") /\
    Step([Fetched EXCEPT !.stack = StackWrite(@, frame.slots + instruction.a, peek(M, 0))])

OpGetGlobal ==
    At("OP_GET_GLOBAL") /\
    LET name == READ_CONSTANT.v
        r == tableGet(heap, globals, name)
    IN  IF r.hang THEN Step(Hang(Fetched))
        ELSE IF ~r.ret
             THEN Step(ReturnError(runtimeError(Fetched, "Undefined variable '%s'.",
                                                <<heap[name].chars>>)))
             ELSE Step(push(Fetched, r.value))

OpDefineGlobal ==
    At("OP_DEFINE_GLOBAL") /\
    LET name == READ_CONSTANT.v
        r == tableSet(heap, globals, name, peek(M, 0))
    IN  IF r.hang THEN Step(Hang(Fetched))
        ELSE Step(pop([Fetched EXCEPT !.globals = r.table,
                                      !.ref = RefSet(@, name, peek(M, 0))]))

OpSetGlobal ==
    At("OP_SET_GLOBAL") /\
    LET name == READ_CONSTANT.v
        r == tableSet(heap, globals, name, peek(M, 0))
        d == tableDelete(heap, r.table, name)
    IN  IF r.hang THEN Step(Hang(Fetched))
        ELSE IF r.ret
             THEN IF d.hang THEN Step(Hang(Fetched))
                  ELSE Step(ReturnError(runtimeError(
                                [Fetched EXCEPT !.globals = d.table],
                                "Undefined variable '%s'.", <<heap[name].chars>>)))
             ELSE Step([Fetched EXCEPT !.globals = r.table,
                                       !.ref = RefSet(@, name, peek(M, 0))])

OpGetUpvalue ==
    At("OP_GET_UPVALUE") /\
    Step(push(Fetched, ReadUpvalue(M, heap[frame.closure].upvalues[instruction.a + 1])))

OpSetUpvalue ==
    At("OP_SET_UPVALUE") /\
    Step(WriteUpvalue(Fetched, heap[frame.closure].upvalues[instruction.a + 1], peek(M, 0)))

\* BINARY_OP: value is valueType(a op b).
BINARY_OP(m, value) ==
    IF ~IS_NUMBER(peek(m, 0)) \/ ~IS_NUMBER(peek(m, 1))
    THEN ReturnError(runtimeError(m, "Operands must be numbers.", <<>>))
    ELSE push(pop(pop(m)), value)

\* OP_EQUAL that takes numbers only, as the comparisons do.
OpEqual_NumbersOnly ==
    At("OP_EQUAL") /\
    Step(BINARY_OP(Fetched, BOOL_VAL(valuesEqual(peek(M, 1), peek(M, 0)))))

OpEqual ==
    At("OP_EQUAL") /\
    Step(push(pop(pop(Fetched)), BOOL_VAL(valuesEqual(peek(M, 1), peek(M, 0)))))

\* The buffer of concatenate for the Strings a and b: ALLOCATE(char, length)
\* gives it length bytes (none, and a null pointer, when length is 0); the
\* two memcpy write the indexes below length and chars[length] = 0 writes
\* the index length.
ConcatBuffer(h, a, b) ==
    LET length == Len(h[a].chars) + Len(h[b].chars)
    IN  [size |-> length,
         written |-> (0..(Len(h[a].chars) - 1))
                     \cup (Len(h[a].chars)..(length - 1))
                     \cup {length}]

\* Every index written is inside the buffer.
WritesInside(buffer) == \A i \in buffer.written : i < buffer.size

\* concatenate.  A write outside the buffer is undefined: the process is lost
\* (fault) or goes on as if the byte had been its own.
concatenate(m, fault) ==
    LET b == peek(m, 0).v
        a == peek(m, 1).v
        r == takeString(m.heap, m.strings, m.heap[a].chars \o m.heap[b].chars)
    IN  IF ~WritesInside(ConcatBuffer(m.heap, a, b)) /\ fault
        THEN [m EXCEPT !.status = "undefined"]
        ELSE IF r.hang THEN Hang(m)
        ELSE push([pop(pop(m)) EXCEPT !.heap = r.heap, !.strings = r.strings],
                  OBJ_VAL(r.handle))

OpAdd ==
    At("OP_ADD") /\
    IF IS_STRING(heap, peek(M, 0)) /\ IS_STRING(heap, peek(M, 1))
    THEN \E fault \in BOOLEAN : Step(concatenate(Fetched, fault))
    ELSE IF IS_NUMBER(peek(M, 0)) /\ IS_NUMBER(peek(M, 1))
         THEN Step(push(pop(pop(Fetched)), NUMBER_VAL(peek(M, 1).v + peek(M, 0).v)))
         ELSE Step(ReturnError(runtimeError(
                       Fetched, "Operands must be two numbers of two strings.", <<>>)))

OpGreater ==
    At("OP_GREATER") /\ Step(BINARY_OP(Fetched, BOOL_VAL(peek(M, 1).v > peek(M, 0).v)))

OpLess ==
    At("OP_LESS") /\ Step(BINARY_OP(Fetched, BOOL_VAL(peek(M, 1).v < peek(M, 0).v)))

OpSubtract ==
    At("OP_SUBTRACT") /\ Step(BINARY_OP(Fetched, NUMBER_VAL(peek(M, 1).v - peek(M, 0).v)))

OpMultiply ==
    At("OP_MULTIPLY") /\ Step(BINARY_OP(Fetched, NUMBER_VAL(peek(M, 1).v * peek(M, 0).v)))

OpNegate ==
    At("OP_NEGATE") /\
    IF ~IS_NUMBER(peek(M, 0))
    THEN Step(ReturnError(runtimeError(Fetched, "Operand must be a number.", <<>>)))
    ELSE Step(push(pop(Fetched), NUMBER_VAL(0 - peek(M, 0).v)))

OpNot == At("OP_NOT") /\ Step(push(pop(Fetched), BOOL_VAL(isFalsey(peek(M, 0)))))

OpPrint ==
    At("OP_PRINT") /\ Step([pop(Fetched) EXCEPT !.output = Append(@, peek(M, 0))])

OpJump ==
    At("OP_JUMP") /\
    Step([Fetched EXCEPT !.frames[Len(frames)].ip = @ + instruction.a])

OpJumpIfFalse ==
    At("OP_JUMP_IF_FALSE") /\
    Step(IF isFalsey(peek(M, 0))
         THEN [Fetched EXCEPT !.frames[Len(frames)].ip = @ + instruction.a]
         ELSE Fetched)

OpCall ==
    At("OP_CALL") /\
    \E env \in Environments :
        LET argCount == instruction.a
            r == callValue(Fetched, peek(M, argCount), argCount, env)
        IN  IF r.ok THEN Step(r.m) ELSE Step(ReturnError(r.m))

\* The upvalue loop of OP_CLOSURE for upvalues i .. upvalueCount.
RECURSIVE CaptureAll(_, _, _, _, _)
CaptureAll(m, closure, ups, slots, i) ==
    IF i > Len(ups) THEN m
    ELSE IF ups[i][1] = 1
         THEN LET local == slots + ups[i][2]
                  c == captureUpvalue(m, local)
                  g == [k \in (DOMAIN c.m.gen) \cup {local} |-> GenOf(c.m.gen, k)]
              IN  CaptureAll([c.m EXCEPT !.heap[closure].upvalues[i] = c.upvalue,
                                         !.heap[closure].captured[i] = <<local, g[local]>>,
                                         !.gen = g],
                             closure, ups, slots, i + 1)
         ELSE CaptureAll(
                  [m EXCEPT !.heap[closure].upvalues[i] =
                                m.heap[frame.closure].upvalues[ups[i][2] + 1],
                            !.heap[closure].captured[i] =
                                m.heap[frame.closure].captured[ups[i][2] + 1]],
                  closure, ups, slots, i + 1)

OpClosure ==
    At("OP_CLOSURE") /\
    LET function == READ_CONSTANT.v
        h2 == Append(heap, ClosureObj(function, compiled[heap[function].function].upvalueCount))
        closure == Len(h2)
    IN  Step(CaptureAll(push([Fetched EXCEPT !.heap = h2], OBJ_VAL(closure)),
                        closure, instruction.ups, frame.slots, 1))

OpCloseUpvalue ==
    At("OP_CLOSE_UPVALUE") /\ Step(pop(closeUpvalues(Fetched, stackTop - 1)))

OpReturn ==
    At("OP_RETURN") /\
    LET value == peek(M, 0)
        m1 == closeUpvalues(pop(Fetched), frame.slots)
        m2 == [m1 EXCEPT !.frames = SubSeq(@, 1, Len(@) - 1)]
    IN  IF Len(m2.frames) = 0
        THEN Step([pop(m2) EXCEPT !.result = "OK", !.status = "idle"])
        ELSE Step(push([m2 EXCEPT !.stackTop = frame.slots,
                                  !.gen = Kill(@, frame.slots, m2.stackTop)],
                       value))

Run ==
    \/ OpConstant \/ OpNil \/ OpTrue \/ OpFalse \/ OpPop
    \/ OpGetLocal \/ OpSetLocal
    \/ OpGetGlobal \/ OpDefineGlobal \/ OpSetGlobal
    \/ OpGetUpvalue \/ OpSetUpvalue
    \/ OpEqual \/ OpGreater \/ OpLess
    \/ OpAdd \/ OpSubtract \/ OpMultiply \/ OpNot \/ OpNegate \/ OpPrint
    \/ OpJump \/ OpJumpIfFalse
    \/ OpCall \/ OpClosure \/ OpCloseUpvalue \/ OpReturn

\* The names interned in memory m, each with its binding in m's globals.
Bindings(m) ==
    [k \in {j \in 1..Len(m.heap) : m.heap[j].type = "string"} |-> Binding(m.globals, k)]

\* The process before main is entered.
NoProcess ==
    [pc |-> "none", argc |-> 0, file |-> "none", source |-> 0, overrun |-> "none",
     exit |-> NoReturn]

\* The state in which initVM has left the memory m.
InitFrom(m) ==
    /\ heap = m.heap
    /\ strings = m.strings
    /\ globals = m.globals
    /\ stack = << Run1(OBJ_VAL(5), 1), Run1(OBJ_VAL(6), 1) >>
    /\ stackTop = 0
    /\ frames = <<>>
    /\ openUpvalues = NULL
    /\ prog = 0
    /\ runs = 0
    /\ status = "idle"
    /\ result = "none"
    /\ errors = <<>>
    /\ output = <<>>
    /\ gen = <<>>
    /\ ref = Bindings(m)
    /\ ret = [op |-> "none", ret |-> FALSE, value |-> NIL_VAL]
    /\ parser = NoParser
    /\ process = NoProcess
    /\ compiled = FnTable

Init == InitFrom(initVM)

Next ==
    \/ \E p \in SessionPrograms : Interpret(p)
    \/ Run

Spec == Init /\ [][Next]_vars

\* A session that interprets the deep program: the opcodes it comes to.
DeepNext ==
    \/ Interpret(DeepProgram)
    \/ OpClosure \/ OpDefineGlobal \/ OpGetGlobal \/ OpCall \/ OpNil

DeepSpec == Init /\ [][DeepNext]_vars

\* A session that interprets the programs with closures: the opcodes they
\* come to.
ClosureNext ==
    \/ \E p \in {ClosuresProgram, NestProgram} : Interpret(p)
    \/ OpConstant \/ OpNil \/ OpPop \/ OpGetLocal \/ OpSetLocal
    \/ OpGetGlobal \/ OpDefineGlobal \/ OpSetGlobal
    \/ OpGetUpvalue \/ OpSetUpvalue \/ OpAdd \/ OpPrint
    \/ OpCall \/ OpClosure \/ OpCloseUpvalue \/ OpReturn

ClosureSpec == Init /\ [][ClosureNext]_vars

\* A session in which a run ends in a runtime error while a local captured
\* by a closure is live, and a later run calls the closure; beside it, the
\* programs whose closures outlive their block or fail without being kept.
ErrorNext ==
    \/ \E p \in {LeakProgram, ReadProgram, FaultProgram, ClosuresProgram} : Interpret(p)
    \/ OpConstant \/ OpNil \/ OpPop \/ OpGetLocal
    \/ OpGetGlobal \/ OpDefineGlobal \/ OpSetGlobal
    \/ OpGetUpvalue \/ OpSetUpvalue \/ OpAdd \/ OpNegate \/ OpPrint
    \/ OpCall \/ OpClosure \/ OpCloseUpvalue \/ OpReturn

ErrorSpec == Init /\ [][ErrorNext]_vars

\* A session that calls the natives, with arguments and without.
NativeNext ==
    \/ \E p \in {ProgramOf(25), StaleProgram} : Interpret(p)
    \/ OpConstant \/ OpNil \/ OpGetGlobal \/ OpEqual \/ OpPrint
    \/ OpCall \/ OpReturn

NativeSpec == Init /\ [][NativeNext]_vars

(***************************************************************************)
(* The process (main.c): main with argc arguments and the file of          *)
(* argv[1], through repl or runFile to the exit of the process.            *)
(***************************************************************************)
\* argc ranges over 1 .. MaxArgc.
MaxArgc == 3

\* The file of argv[1]: one that fopen, malloc or fread fails on, or a
\* readable file holding the source of a program.
Files ==
    {[state |-> s, source |-> 0] : s \in {"unopenable", "nomemory", "shortread"}}
    \cup {[state |-> "readable", source |-> p] : p \in SessionPrograms \ {ProgramOf(24)}}

\* exit(code)
Exited(p, code) == [p EXCEPT !.pc = "exited", !.exit = code]

\* The source readFile returns for a readable file.  It has allocated
\* fileSize + 1 bytes and read fileSize bytes into them, and ends with
\* buffer[bytesRead + 1] = 0: the byte at fileSize + 1 is outside the
\* allocation, and the byte at fileSize, the first after the content, is never
\* written.  byte is what that byte happens to hold: "NUL", and the source
\* ends where the file ends, or another character, and the source has one
\* character more (followed here for the file  print z;  alone).
SourceRead(file, byte) ==
    IF byte # "NUL" /\ file.source = ProgramOf(23) THEN ProgramOf(24) ELSE file.source

\* readFile
readFile(p, file, byte, overrun) ==
    IF file.state \in {"unopenable", "nomemory", "shortread"} THEN Exited(p, 74)
    ELSE [p EXCEPT !.pc = "runFile", !.source = SourceRead(file, byte),
                   !.overrun = overrun]

\* main up to the call of interpret.  overrun is what the write outside the
\* allocation does: nothing that shows ("harmless"), or it damages the
\* allocator's bookkeeping next to the buffer ("corrupt").
main(argc, file, byte, overrun) ==
    IF argc = 1 THEN [NoProcess EXCEPT !.pc = "repl", !.argc = argc]
    ELSE IF argc = 2
         THEN readFile([NoProcess EXCEPT !.argc = argc, !.file = file.state],
                       file, byte, overrun)
         ELSE Exited([NoProcess EXCEPT !.argc = argc], 64)

VmIdle == UNCHANGED << heap, strings, globals, status, ref, ret, stack, stackTop,
                      frames, openUpvalues, prog, runs, result, errors, output,
                      gen, parser, compiled >>

MainCall ==
    /\ process.pc = "none"
    /\ \E argc \in 1..MaxArgc, file \in Files, byte \in {"NUL", "other"},
          overrun \in {"harmless", "corrupt"} :
           process' = main(argc, file, byte, overrun)
    /\ VmIdle

\* repl: one more line is read and interpreted.
ReplLine ==
    /\ process.pc = "repl"
    /\ \E p \in SessionPrograms : Interpret(p)

\* repl at the end of the input: readline returns NULL, which add_history and
\* strlen dereference.
ReplEnd ==
    /\ process.pc = "repl"
    /\ status = "idle"
    /\ process' = [process EXCEPT !.pc = "undefined"]
    /\ VmIdle

\* runFile: interpret(source)
RunFileInterpret ==
    /\ process.pc = "runFile"
    /\ Interpreting(process.source)
    /\ process' = [process EXCEPT !.pc = "interpreting"]

\* runFile after interpret has returned: free(source), which aborts on a
\* damaged allocator, then exit(65), exit(70), or back to main, which returns 0.
RunFileReturn ==
    /\ process.pc = "interpreting"
    /\ status = "idle"
    /\ process' = IF process.overrun = "corrupt"
                  THEN [process EXCEPT !.pc = "aborted"]
                  ELSE IF result = "COMPILE_ERROR" THEN Exited(process, 65)
                  ELSE IF result = "RUNTIME_ERROR" THEN Exited(process, 70)
                  ELSE Exited(process, 0)
    /\ VmIdle

MainNext ==
    \/ MainCall \/ ReplLine \/ ReplEnd \/ RunFileInterpret \/ RunFileReturn
    \/ Run

MainSpec == Init /\ [][MainNext]_vars

(***************************************************************************)
(* The compiler run on its own: compile is called on one source after      *)
(* another, and runs one declaration per step.                             *)
(***************************************************************************)
\* The sources: every sequence of up to MaxTokens tokens of Alphabet, the
\* chains of binary operators, and the sources of the programs above.  From
\* the second compile call on, the sources of up to MaxLater tokens.
MaxTokens == 4
MaxLater == 1
MaxPasses == 2

Alphabet == {Digit(1), MINUS, STAR, SEMICOLON, ERROR, PRINT}

ShortSources(n) == UNION {[1..k -> Alphabet] : k \in 0..n}

BinaryOperators ==
    {PLUS, MINUS, STAR, SLASH, EQUAL_EQUAL, BANG_EQUAL, GREATER, GREATER_EQUAL, LESS,
     LESS_EQUAL}

\* 1 op1 2 op2 3;  and  1 op1 2 op2 3 op3 4;
ChainSources ==
    {<< Digit(1), op1, Digit(2), op2, Digit(3), SEMICOLON >> :
        op1 \in BinaryOperators, op2 \in BinaryOperators}
    \cup {<< Digit(1), op1, Digit(2), op2, Digit(3), op3, Digit(4), SEMICOLON >> :
            op1 \in {PLUS, MINUS, STAR}, op2 \in {PLUS, MINUS, STAR},
            op3 \in {PLUS, MINUS, STAR}}

Sources ==
    ShortSources(MaxTokens) \cup ChainSources
    \cup {StatementsSource, TruthSource, EqualitySource, AndSource, OrSource}

CompilerIdle == UNCHANGED << heap, strings, globals, status, ref, ret, stack, stackTop,
                            frames, openUpvalues, prog, runs, result, errors, output,
                            gen, process, compiled >>

\* compile is called: the flags are reset and the first token is scanned.
CompileCall ==
    /\ parser.phase \in {"idle", "done"}
    /\ parser.pass < MaxPasses
    /\ \E source \in (IF parser.pass = 0 THEN Sources ELSE ShortSources(MaxLater)) :
           parser' = CompileBegin(parser, source)
    /\ CompilerIdle

\* One turn of the loop of compile: TOKEN_EOF is not matched, decleration runs.
CompileDecleration ==
    /\ parser.phase = "declerations"
    /\ ~check(parser, "TOKEN_EOF")
    /\ parser' = decleration(parser)
    /\ CompilerIdle

\* TOKEN_EOF is matched: endCompiler, and compile returns.
CompileReturn ==
    /\ parser.phase = "declerations"
    /\ check(parser, "TOKEN_EOF")
    /\ parser' = CompileEnd(parser)
    /\ CompilerIdle

CompileNext == CompileCall \/ CompileDecleration \/ CompileReturn

CompileSpec == Init /\ [][CompileNext]_vars

\* A turn of the loop of compile, or its return.
CompileTurn == CompileDecleration \/ CompileReturn

\* compile, once called, goes on running: weak fairness of CompileTurn, which
\* is enabled exactly while compile is in its loop (a turn always changes the
\* parser), with that enabling condition written out.
CompileRunning == parser.phase = "declerations"
CompileFairSpec ==
    CompileSpec /\ ([]<>(~CompileRunning) \/ []<><<CompileTurn>>_vars)

(***************************************************************************)
(* compile on sources that fill the constant pool of the chunk: up to      *)
(* UINT8_MAX + 1 statements `1;`, each of which adds one constant, and     *)
(* then one more statement or none.                                        *)
(***************************************************************************)
Fill(n) == [i \in 1..(2 * n) |-> IF i % 2 = 1 THEN Digit(1) ELSE SEMICOLON]

\* 2;   "s";   print x;   var a = "b";   1 + 2 + 3;   var = 2;   var 1;
\* 1 1 <error> print 2;
Tails ==
    { <<>>,
      << Digit(2), SEMICOLON >>,
      << Quoted(<<115>>), SEMICOLON >>,
      << PRINT, Identifier(<<120>>), SEMICOLON >>,
      << VAR, Identifier(<<97>>), EQUAL, Quoted(<<98>>), SEMICOLON >>,
      << Digit(1), PLUS, Digit(2), PLUS, Digit(3), SEMICOLON >>,
      << VAR, EQUAL, Digit(2), SEMICOLON >>,
      << VAR, Digit(1), SEMICOLON >>,
      << Digit(1), Digit(1), ERROR, PRINT, Digit(2), SEMICOLON >> }

FullSources ==
    {Fill(n) \o tail : n \in {UINT8_MAX - 1, UINT8_MAX, UINT8_MAX + 1}, tail \in Tails}

\* compile is called on one of the sources.
FullCall ==
    /\ parser.phase = "idle"
    /\ \E source \in FullSources : parser' = CompileBegin(parser, source)
    /\ CompilerIdle

FullNext == FullCall \/ CompileDecleration \/ CompileReturn

FullSpec == Init /\ [][FullNext]_vars

(***************************************************************************)
(* The globals table exercised directly through table.c, from the state    *)
(* initVM leaves: the natives are bound, and the calls set, delete and get *)
(* one-letter names that have been interned.                               *)
(***************************************************************************)
\* How many one-letter names ("a", "b", ...) are interned beside the natives'.
NumNames == 3

Values == {NUMBER_VAL(1), NUMBER_VAL(2)}

\* The memory m after a copyString that answered s.
Interned(m, s) == [m EXCEPT !.heap = s.heap, !.strings = s.strings]

RECURSIVE InternNames(_, _, _)
InternNames(m, i, n) ==
    IF i > n THEN m
    ELSE InternNames(Interned(m, copyString(m.heap, m.strings, <<96 + i>>)), i + 1, n)

\* Every interned name, and the names that are not a native's.
Keys == {k \in 1..Len(heap) : heap[k].type = "string"}
UserKeys == {k \in Keys : Len(heap[k].chars) = 1}


TableInit == InitFrom(InternNames(initVM, 1, NumNames))

TableSetOp(key, value) ==
    /\ status = "idle"
    /\ LET r == tableSet(heap, globals, key, value)
       IN  IF r.hang
           THEN /\ status' = "hung"
                /\ UNCHANGED << globals, ref, ret >>
           ELSE /\ globals' = r.table
                /\ ref' = [ref EXCEPT ![key] = value]
                /\ ret' = [op |-> "set", ret |-> r.ret, value |-> NIL_VAL]
                /\ UNCHANGED status
    /\ UNCHANGED << heap, strings, vmVars >>

TableDeleteOp(key) ==
    /\ status = "idle"
    /\ LET r == tableDelete(heap, globals, key)
       IN  IF r.hang
           THEN /\ status' = "hung"
                /\ UNCHANGED << globals, ref, ret >>
           ELSE /\ globals' = r.table
                /\ ref' = [ref EXCEPT ![key] = Absent]
                /\ ret' = [op |-> "delete", ret |-> r.ret, value |-> NIL_VAL]
                /\ UNCHANGED status
    /\ UNCHANGED << heap, strings, vmVars >>

TableGetOp(key) ==
    /\ status = "idle"
    /\ LET r == tableGet(heap, globals, key)
       IN  IF r.hang
           THEN /\ status' = "hung"
                /\ UNCHANGED ret
           ELSE /\ ret' = [op |-> "get", ret |-> r.ret, value |-> r.value]
                /\ UNCHANGED status
    /\ UNCHANGED << globals, ref, heap, strings, vmVars >>

TableNext ==
    \/ \E key \in UserKeys, value \in Values : TableSetOp(key, value)
    \/ \E key \in UserKeys : TableDeleteOp(key)
    \/ \E key \in Keys : TableGetOp(key)

TableSpec == TableInit /\ [][TableNext]_vars


(***************************************************************************)
(* Properties.                                                             *)
(***************************************************************************)
\* Every name interned so far.
Names == {k \in 1..Len(heap) : heap[k].type = "string"}

\* C1: when GET_GLOBAL is about to run on a name that a DEFINE_GLOBAL, a
\* successful SET_GLOBAL or initVM has bound, the lookup it makes hits and
\* yields the value most recently bound to that name.
C1_GetGlobalReadsLatest ==
    (status = "running" /\ instruction.op = "OP_GET_GLOBAL"
                        /\ RefGet(ref, READ_CONSTANT.v) # Absent) =>
        /\ ~tableGet(heap, globals, READ_CONSTANT.v).hang
        /\ tableGet(heap, globals, READ_CONSTANT.v).ret
        /\ tableGet(heap, globals, READ_CONSTANT.v).value = RefGet(ref, READ_CONSTANT.v)

\* C2: the strings table holds one String per byte sequence, tableFindString
\* answers the existing handle for the contents of every String interned so
\* far, and so two Strings are equal as values exactly when their contents are.
C2_Interned ==
    \A i \in Names :
        /\ tableFindString(heap, strings, heap[i].chars, heap[i].hash) = i
        /\ \A j \in Names :
               /\ (heap[i].chars = heap[j].chars) => (i = j)
               /\ valuesEqual(OBJ_VAL(i), OBJ_VAL(j)) <=> (heap[i].chars = heap[j].chars)

\* The strings table has grown, and a function compiled since holds one handle
\* for two occurrences of a literal.
C2_Witness ==
    /\ strings.capacity > 8
    /\ \E f \in 1..Len(heap) :
           /\ heap[f].type = "function"
           /\ \E i, j \in 1..Len(heap[f].constants) :
                  /\ i < j
                  /\ IS_STRING(heap, heap[f].constants[i])
                  /\ heap[f].constants[i] = heap[f].constants[j]

\* Whether the entry array of table has a truly empty slot.
HasEmptySlot(table) ==
    \E i \in 1..table.capacity :
        table.entries[i].key = NULL /\ IS_NIL(table.entries[i].value)

\* C3: no probe loop runs forever, and both tables (strings and globals) keep
\* at least one truly empty slot (key NULL, value Nil) in their entry arrays.
C3_ProbesTerminate ==
    /\ status # "hung"
    /\ HasEmptySlot(strings)
    /\ HasEmptySlot(globals)

\* Every closure allocated so far.
Closures == {c \in 1..Len(heap) : heap[c].type = "closure"}

\* Whether upvalue i of closure c1 and upvalue j of closure c2 capture the same
\* variable: the same stack slot in the same activation.
SameVariable(c1, i, c2, j) == heap[c1].captured[i] = heap[c2].captured[j]

\* Closures that capture the same variable hold the same Upvalue object.
SharedUpvalue ==
    \A c1 \in Closures, c2 \in Closures :
        \A i \in DOMAIN heap[c1].upvalues, j \in DOMAIN heap[c2].upvalues :
            SameVariable(c1, i, c2, j) => heap[c1].upvalues[i] = heap[c2].upvalues[j]

\* The value SET_UPVALUE writes is what every closure capturing the same
\* variable reads through its own upvalue afterwards.
WriteObserved ==
    At("OP_SET_UPVALUE") =>
        \A c \in Closures :
            \A j \in DOMAIN heap[c].upvalues :
                SameVariable(frame.closure, instruction.a + 1, c, j) =>
                    ReadUpvalue(M, heap[c].upvalues[j])' = peek(M, 0)

\* C5: two closures that capture the same stack slot hold the same Upvalue
\* object, and a SET_UPVALUE through one is read back through the other,
\* while the slot is open and after it is closed.
C5_ClosureSharing == []SharedUpvalue /\ [][WriteObserved]_vars

\* The two closures of the closures program share one upvalue, now closed, and
\* the program has printed the value written before the close and the one
\* written after it.
C5_Witness ==
    /\ output = << NUMBER_VAL(1), NUMBER_VAL(2) >>
    /\ \E c1 \in Closures, c2 \in Closures :
           /\ c1 # c2
           /\ heap[c1].upvalues # <<>>
           /\ heap[c1].upvalues = heap[c2].upvalues
           /\ heap[heap[c1].upvalues[1]].location = Closed

\* The program compiled from StatementsSource, and the code positions at
\* which its declarations start and end.
StatementsProgram == ProgramOf(13)
StatementBounds == {StatementsChunk.marks[i] : i \in 1..Len(StatementsChunk.marks)}

\* run is between two declarations of the statements program.
BetweenStatements ==
    /\ status = "running"
    /\ prog = StatementsProgram
    /\ Len(frames) = 1
    /\ frame.ip \in StatementBounds

\* C6: the bytecode of one statement (expression statement, print statement,
\* var declaration) leaves the stack top where it was before the statement:
\* between any two statements the stack holds the script's own slot only.
C6_StatementsStackNeutral == BetweenStatements => stackTop = 1

\* Every declaration of the statements program has run: the three prints are
\* out and run is at the implicit return.
C6_Witness ==
    /\ BetweenStatements
    /\ frame.ip = StatementsChunk.marks[Len(StatementsChunk.marks)]
    /\ output = << BOOL_VAL(FALSE), BOOL_VAL(TRUE), BOOL_VAL(FALSE) >>

\* OP_CALL is about to call a closure with argCount arguments.
CallsClosure ==
    At("OP_CALL") /\ isObjType(heap, peek(M, instruction.a), "closure")

\* The arity of the closure OP_CALL is about to call.
CalleeArity == FunctionOf(heap, peek(M, instruction.a).v).arity

\* run returns INTERPRET_RUNTIME_ERROR in this step.
ErrorReturn == status = "running" /\ status' = "idle" /\ result' = "RUNTIME_ERROR"

\* A call of a closure with the wrong number of arguments reports the arity
\* error and makes run return with no frame left, the callee's included.
ArityStep ==
    (CallsClosure /\ instruction.a # CalleeArity) =>
        /\ ErrorReturn
        /\ errors' = Append(errors, [msg |-> "Expected %d arguments but got %d.",
                                     args |-> << CalleeArity, instruction.a >>])
        /\ frames' = <<>>

\* C7: a call with argCount # arity reports "Expected N arguments but got M."
\* and fails without pushing a frame, so that no instruction of the callee runs.
C7_ArityEnforced == [][ArityStep]_vars

\* The arity program has run its one-argument function once and has been
\* refused the call without arguments.
C7_Witness ==
    /\ output = << NUMBER_VAL(7) >>
    /\ errors = << [msg |-> "Expected %d arguments but got %d.", args |-> <<1, 0>>] >>
    /\ result = "RUNTIME_ERROR"

\* A call of a closure with the right number of arguments pushes one frame
\* while fewer than FRAMES_MAX are in use, and reports "Stack overflow."
\* when FRAMES_MAX are.
FrameStep ==
    (CallsClosure /\ instruction.a = CalleeArity) =>
        IF Len(frames) = FRAMES_MAX
        THEN /\ ErrorReturn
             /\ errors' = Append(errors, [msg |-> "Stack overflow.", args |-> <<>>])
        ELSE /\ Len(frames') = Len(frames) + 1
             /\ errors' = errors

\* C8: frameCount never exceeds FRAMES_MAX, and unbounded recursion ends in
\* "Stack overflow." at the call made with FRAMES_MAX frames in use.
C8_FrameLimit == [](Len(frames) <= FRAMES_MAX) /\ [][FrameStep]_vars

\* The recursive program has been stopped by "Stack overflow.".
C8_Witness ==
    /\ errors = << [msg |-> "Stack overflow.", args |-> <<>>] >>
    /\ result = "RUNTIME_ERROR"
    /\ status = "idle"

\* The globals table as the faulting instruction's own table calls leave it.
GlobalsAfterFault ==
    IF instruction.op = "OP_SET_GLOBAL"
    THEN tableDelete(heap,
                     tableSet(heap, globals, READ_CONSTANT.v, peek(M, 0)).table,
                     READ_CONSTANT.v).table
    ELSE globals

\* A step that reports an error is run's last: one report, both stacks and the
\* open-upvalue list empty, and the globals table untouched by the unwinding.
FaultStep ==
    /\ (status = "running" /\ errors' # errors) => ErrorReturn
    /\ ErrorReturn =>
           /\ Len(errors') = 1
           /\ stackTop' = 0
           /\ frames' = <<>>
           /\ openUpvalues' = NULL
           /\ globals' = GlobalsAfterFault

\* The interpret call that follows a runtime error starts from empty stacks
\* and finds the globals table as the error left it.
RecoverStep ==
    (status = "idle" /\ result = "RUNTIME_ERROR" /\ status' = "running") =>
        /\ stackTop = 0
        /\ frames = <<>>
        /\ globals' = globals
        /\ stackTop' = 1
        /\ Len(frames') = 1

\* C10: a runtime error is reported once, empties the value stack, the frame
\* stack and the open-upvalue list, and makes run return
\* INTERPRET_RUNTIME_ERROR with no further instruction executed; the next
\* interpret call starts from the empty stacks with the globals table in place.
C10_ErrorResets ==
    /\ [](status = "idle" => (stackTop = 0 /\ frames = <<>>))
    /\ [][FaultStep /\ RecoverStep]_vars

\* A second interpret call is running after the first returned a runtime error.
C10_Witness ==
    /\ runs = 2
    /\ status = "running"
    /\ result = "RUNTIME_ERROR"
    /\ stackTop = 1
    /\ Len(frames) = 1

\* C9: the stack top stays within vm.stack, 0 <= top <= STACK_MAX.
C9_StackWithinBounds == 0 <= stackTop /\ stackTop <= STACK_MAX

\* C4: the globals table answers tableGet as the reference key -> value map
\* does: a hit exactly for the keys set and not deleted since, with the value
\* of the last tableSet.
C4_TableIsFiniteMap ==
    status = "idle" =>
        \A key \in Keys :
            LET r == tableGet(heap, globals, key)
            IN  /\ ~r.hang
                /\ r.ret <=> (ref[key] # Absent)
                /\ r.ret => (r.value = ref[key])

\* The falsey values of the language: nil and false.
NilOrFalse(value) == value = NIL_VAL \/ value = BOOL_VAL(FALSE)

\* The value on top of the stack after the step.
TopAfter == StackAt(stack', stackTop' - 1)

\* OP_NOT replaces its operand x by one value, and that value is true exactly
\* when x is nil or false (and false otherwise).
NotReturnsTrue ==
    At("OP_NOT") =>
        /\ stackTop' = stackTop
        /\ TopAfter \in {BOOL_VAL(TRUE), BOOL_VAL(FALSE)}
        /\ (TopAfter = BOOL_VAL(TRUE)) <=> NilOrFalse(peek(M, 0))

\* OP_NOT yields false exactly when its operand is nil or false.
NotReturnsFalse == At("OP_NOT") => ((TopAfter = BOOL_VAL(FALSE)) <=> NilOrFalse(peek(M, 0)))

\* C11: !x returns true iff x is nil or false, and false for every other
\* value x (the statement with "returns false" is C11_Original).
C11_NotOfFalsey == [][NotReturnsTrue]_vars

\* C11 as stated: !x returns false iff x is nil or false.
C11_Original == [][NotReturnsFalse]_vars

\* The truth program has printed !x for nil, false, true, 0, 1, "", "a" and
\* the native clock.
TruthProgram == ProgramOf(16)

C11_Witness ==
    /\ prog = TruthProgram
    /\ result = "OK"
    /\ output = << BOOL_VAL(TRUE), BOOL_VAL(TRUE), BOOL_VAL(FALSE), BOOL_VAL(FALSE),
                   BOOL_VAL(FALSE), BOOL_VAL(FALSE), BOOL_VAL(FALSE), BOOL_VAL(FALSE) >>

\* The values a program of the session can put on the stack.
StackValues == {StackAt(stack, i) : i \in 0..(stackTop - 1)}

\* OP_JUMP_IF_FALSE leaves the stack alone and adds its offset to ip exactly
\* when the value on top is nil or false.
JumpIfFalseDecides ==
    At("OP_JUMP_IF_FALSE") =>
        /\ stackTop' = stackTop
        /\ TopAfter = peek(M, 0)
        /\ frames'[Len(frames)].ip =
               frame.ip + 1 + (IF NilOrFalse(peek(M, 0)) THEN instruction.a ELSE 0)

\* OP_NOT pushes whether its operand is nil or false.
NotDecides == At("OP_NOT") => (TopAfter = BOOL_VAL(NilOrFalse(peek(M, 0))))

\* C12: isFalsey(v) holds exactly when v is nil or false, for every value that
\* reaches the stack (numbers, 0 included, strings, "" included, and other
\* objects are truthy), and OP_NOT and OP_JUMP_IF_FALSE decide by it.
C12_IsFalsey ==
    /\ [](\A value \in StackValues : isFalsey(value) <=> NilOrFalse(value))
    /\ [][NotDecides /\ JumpIfFalseDecides]_vars

\* The branch program has taken the else branch for nil and false and the then
\* branch for true, 0, 1, "", "a" and clock.
BranchProgram == ProgramOf(17)

C12_Witness ==
    /\ prog = BranchProgram
    /\ result = "OK"
    /\ status = "idle"
    /\ output = << BOOL_VAL(FALSE), BOOL_VAL(FALSE), BOOL_VAL(TRUE), BOOL_VAL(TRUE),
                   BOOL_VAL(TRUE), BOOL_VAL(TRUE), BOOL_VAL(TRUE), BOOL_VAL(TRUE) >>

\* The step raises no runtime error and run goes on.
NoRaise == errors' = errors /\ status' = "running" /\ Len(frames') = Len(frames)

\* The slots below i hold after the step what they held before.
SlotsKept(i) == \A k \in 0..(i - 1) : StackAt(stack', k) = StackAt(stack, k)

\* OP_EQUAL takes its two operands, whatever they are, and leaves one Bool.
EqualTotal ==
    At("OP_EQUAL") =>
        /\ NoRaise
        /\ stackTop' = stackTop - 1
        /\ TopAfter \in {BOOL_VAL(TRUE), BOOL_VAL(FALSE)}
        /\ SlotsKept(stackTop - 2)

\* The OP_NOT that != adds after OP_EQUAL turns the Bool into a Bool.
NotTotal ==
    At("OP_NOT") =>
        /\ NoRaise
        /\ stackTop' = stackTop
        /\ TopAfter \in {BOOL_VAL(TRUE), BOOL_VAL(FALSE)}
        /\ SlotsKept(stackTop - 1)

\* C13: == (OP_EQUAL) and != (OP_EQUAL, OP_NOT) raise no runtime error for any
\* pair of operands and leave exactly one Bool in place of the two operands.
C13_EqualityTotal == [][EqualTotal /\ NotTotal]_vars

\* The equality program has compared operands of unlike and like variants
\* with == and != and printed ten Bools.
EqualityProgram == ProgramOf(18)

C13_Witness ==
    /\ prog = EqualityProgram
    /\ result = "OK"
    /\ status = "idle"
    /\ errors = <<>>
    /\ runs = 1
    /\ output = << BOOL_VAL(FALSE), BOOL_VAL(TRUE), BOOL_VAL(FALSE), BOOL_VAL(FALSE),
                   BOOL_VAL(FALSE), BOOL_VAL(TRUE), BOOL_VAL(FALSE), BOOL_VAL(FALSE),
                   BOOL_VAL(TRUE), BOOL_VAL(TRUE) >>

\* The binary operators by precedence level, and the code of each.
Levels ==
    { {EQUAL_EQUAL, BANG_EQUAL}, {GREATER, GREATER_EQUAL, LESS, LESS_EQUAL},
      {PLUS, MINUS}, {STAR, SLASH} }

OperatorCode(op) ==
    CASE op = BANG_EQUAL -> << Op("OP_EQUAL"), Op("OP_NOT") >>
      [] op = EQUAL_EQUAL -> << Op("OP_EQUAL") >>
      [] op = GREATER -> << Op("OP_GREATER") >>
      [] op = GREATER_EQUAL -> << Op("OP_LESS"), Op("OP_NOT") >>
      [] op = LESS -> << Op("OP_LESS") >>
      [] op = LESS_EQUAL -> << Op("OP_GREATER"), Op("OP_NOT") >>
      [] op = PLUS -> << Op("OP_ADD") >>
      [] op = MINUS -> << Op("OP_SUBTRACT") >>
      [] op = STAR -> << Op("OP_MULTIPLY") >>
      [] op = SLASH -> << Op("OP_DIVIDE") >>

\* The source is one expression statement  n op n op ... n ;  of at least two
\* operators, all of one precedence level.
IsChain(source) ==
    /\ Len(source) >= 6
    /\ Len(source) % 2 = 0
    /\ source[Len(source)] = SEMICOLON
    /\ \A i \in 1..(Len(source) - 1) :
           IF i % 2 = 1 THEN source[i].type = "TOKEN_NUMBER"
           ELSE source[i] \in BinaryOperators
    /\ \E level \in Levels :
           \A i \in 1..(Len(source) - 1) : i % 2 = 0 => source[i] \in level

\* The code of (..((n1 op1 n2) op2 n3) ..): the first operand, then each
\* further operand followed by the operator to its left.
RECURSIVE LeftNested(_, _)
LeftNested(source, i) ==
    IF i >= Len(source) THEN <<>>
    ELSE << Op1("OP_CONSTANT", i \div 2) >> \o OperatorCode(source[i])
         \o LeftNested(source, i + 2)

AndProgram == ProgramOf(19)
OrProgram == ProgramOf(20)

\* C15: in `a and b` the code of b runs iff a is truthy, in `a or b` iff a is
\* falsey, and one value remains (a's when b is skipped, b's otherwise): once
\* interpret has returned, `print true and 1;` and `print nil or 1;` have
\* each run b and printed its value, 1.
C15_ShortCircuit ==
    (prog \in {AndProgram, OrProgram} /\ status = "idle") =>
        /\ result = "OK"
        /\ output = << NUMBER_VAL(1) >>

\* OP_ADD by operand types: the concatenation of two strings, the sum of two
\* numbers, and for any other pair the one runtime error with the message of
\* the specification.
AddDispatches ==
    (At("OP_ADD") /\ status' \notin {"hung", "undefined"}) =>
        IF IS_STRING(heap, peek(M, 0)) /\ IS_STRING(heap, peek(M, 1))
        THEN /\ NoRaise
             /\ stackTop' = stackTop - 1
             /\ IS_STRING(heap', TopAfter)
             /\ heap'[TopAfter.v].chars = heap[peek(M, 1).v].chars \o heap[peek(M, 0).v].chars
        ELSE IF IS_NUMBER(peek(M, 0)) /\ IS_NUMBER(peek(M, 1))
             THEN /\ NoRaise
                  /\ stackTop' = stackTop - 1
                  /\ TopAfter = NUMBER_VAL(peek(M, 1).v + peek(M, 0).v)
             ELSE /\ ErrorReturn
                  /\ errors' = << [msg |-> "Operands must be two numbers or two strings.",
                                   args |-> <<>>] >>

\* C16: OP_ADD concatenates two strings, adds two numbers, and for every other
\* pair of operands raises the runtime error "Operands must be two numbers or
\* two strings." and makes run return INTERPRET_RUNTIME_ERROR.
C16_AddDispatch == [][AddDispatches]_vars

\* OP_GET_GLOBAL is about to look up a name that no DEFINE_GLOBAL, no
\* successful SET_GLOBAL and no defineNative has bound.
GetsUnbound == At("OP_GET_GLOBAL") /\ RefGet(ref, READ_CONSTANT.v) = Absent

\* C17: GET_GLOBAL of a name that was never defined, or whose SET_GLOBAL
\* failed, raises the runtime error "Undefined variable 'name'." with that
\* name and pushes nothing.
C17_UndefinedGlobal ==
    [][GetsUnbound =>
          /\ ErrorReturn
          /\ errors' = << [msg |-> "Undefined variable '%s'.",
                           args |-> << heap[READ_CONSTANT.v].chars >>] >>
          /\ stackTop' = 0]_vars

\* C18: the process ends with exit code 0 when the file was interpreted with
\* result OK, 65 after a compile error, 70 after a runtime error, 64 when main
\* was given more than one argument, 74 when the file could not be opened or
\* read.
C18_ExitCodes ==
    /\ (process.pc \in {"exited", "aborted"} /\ process.argc > 2) =>
           (process.pc = "exited" /\ process.exit = 64)
    /\ (process.pc \in {"exited", "aborted"} /\ process.argc = 2) =>
           /\ process.pc = "exited"
           /\ process.exit =
                  IF process.file # "readable" THEN 74
                  ELSE IF result = "COMPILE_ERROR" THEN 65
                  ELSE IF result = "RUNTIME_ERROR" THEN 70
                  ELSE 0

\* compile has been called in this step.
CompileCalled == parser'.pass = parser.pass + 1

\* hadError, once set, stays set until compile is called again.
HadErrorSticky == (parser.hadError /\ ~parser'.hadError) => CompileCalled

\* An errorAt call made while panicMode is set prints nothing and changes
\* nothing; one made while it is clear prints one message and sets both flags.
SuppressedInPanic ==
    /\ \A i \in 1..Len(parser.calls) :
           parser.calls[i].kind = "errorAt" =>
               (parser.calls[i].panicMode <=> parser.calls[i].silent)
    /\ Len(parser.reported) =
           Cardinality({i \in 1..Len(parser.calls) :
                           parser.calls[i].kind = "errorAt" /\ ~parser.calls[i].panicMode})

\* Within a pass, an errorAt call finds panicMode clear only at the start of
\* the pass or right after a synchronize call: nothing else has cleared it.
ClearedInPass ==
    \A i \in 2..Len(parser.calls) :
        (parser.calls[i].kind = "errorAt" /\ ~parser.calls[i].panicMode) =>
            parser.calls[i - 1].kind = "synchronize"

\* panicMode went from set to clear in a step in which synchronize ran.
ClearedBySynchronize ==
    (parser.panicMode /\ ~parser'.panicMode) =>
        (~CompileCalled /\ parser'.synchronized > parser.synchronized)

\* panicMode went from set to clear in a step in which synchronize ran or
\* compile was called.
ClearedBySynchronizeOrCompile ==
    (parser.panicMode /\ ~parser'.panicMode) =>
        (CompileCalled \/ parser'.synchronized > parser.synchronized)

\* compile returns false exactly when an error was reported during the pass.
FailsIffReported ==
    parser.phase = "done" =>
        /\ parser.ok <=> (parser.reported = <<>>)
        /\ parser.ok <=> ~parser.hadError

\* C19: hadError is sticky until the next compile call; while panicMode is
\* set errorAt prints nothing and changes nothing; panicMode is cleared only
\* by synchronize or by the reset at the start of the next compile call; and
\* compile reports failure iff an error was reported during the pass.
C19_ErrorStateMachine ==
    /\ [](SuppressedInPanic /\ ClearedInPass /\ FailsIffReported)
    /\ [][HadErrorSticky /\ ClearedBySynchronizeOrCompile]_vars

\* C19 as stated: panicMode is cleared by synchronize only.
C19_Original ==
    /\ [](SuppressedInPanic /\ ClearedInPass /\ FailsIffReported)
    /\ [][HadErrorSticky /\ ClearedBySynchronize]_vars

\* A second compile call has returned failure: an error was reported, a later
\* errorAt call was suppressed, and synchronize cleared panicMode.
C19_Witness ==
    /\ parser.pass = 2
    /\ parser.phase = "done"
    /\ ~parser.ok
    /\ ~parser.panicMode
    /\ parser.synchronized > 0
    /\ \E i \in 1..Len(parser.calls) :
           parser.calls[i].kind = "errorAt" /\ parser.calls[i].panicMode

\* The OP_CALL about to run calls a Native.
NativeCalled == At("OP_CALL") /\ isObjType(heap, peek(M, instruction.a), "native")

\* The first argument pushed for the call about to run.
FirstArgument == peek(M, instruction.a - 1)

\* What the native called has returned is on top of the stack: clock a time,
\* num the number its first argument spells, input the line read, having
\* printed its first argument.
NativeResult ==
    LET fn == heap[peek(M, instruction.a).v].fn
    IN  /\ fn = "clock" => (TopAfter \in {NUMBER_VAL(c) : c \in Clocks} /\ output' = output)
        /\ (fn = "num" /\ instruction.a > 0 /\ IS_STRING(heap, FirstArgument)) =>
               /\ TopAfter = NUMBER_VAL(strtod(DigitPrefix(heap[FirstArgument.v].chars)))
               /\ output' = output
        /\ (fn = "input" /\ instruction.a > 0 /\ IS_STRING(heap, FirstArgument)) =>
               /\ output' = Append(output, FirstArgument)
               /\ IS_STRING(heap', TopAfter)
               /\ heap'[TopAfter.v].chars \in Lines \cup {<<>>}

\* A call of a Native pushes no frame and raises nothing; the callee and its
\* argCount arguments give way to the one value returned, and the slots below
\* the callee are kept.
NativeInPlace ==
    (NativeCalled /\ status' # "undefined") =>
        /\ NoRaise
        /\ frames' = [frames EXCEPT ![Len(frames)].ip = @ + 1]
        /\ stackTop' = stackTop - instruction.a
        /\ SlotsKept(stackTop - instruction.a - 1)
        /\ NativeResult

NativeProgram == ProgramOf(25)

\* `print 7 == clock(1, 2); print num("12", "3"); print input("a");` has
\* printed false or true, 12, the prompt a and the line read.
NativeOutput ==
    /\ Len(output) = 4
    /\ output[1] \in {BOOL_VAL(FALSE), BOOL_VAL(TRUE)}
    /\ output[2] = NUMBER_VAL(12)
    /\ IS_STRING(heap, output[3]) /\ heap[output[3].v].chars = <<97>>
    /\ IS_STRING(heap, output[4]) /\ heap[output[4].v].chars \in Lines \cup {<<>>}

\* C20: calling a Native with argCount arguments invokes it in place with
\* args at the first pushed argument, pushes no call frame, and leaves the
\* returned value in place of the callee and the arguments, the stack top
\* argCount lower.
C20_NativeCall ==
    /\ [][NativeInPlace]_vars
    /\ []((prog = NativeProgram /\ status = "idle" /\ result = "OK") => NativeOutput)

\* The program of native calls has run: clock was called with two arguments,
\* num with two and input with one, and the line "1" was read.
C20_Witness ==
    /\ prog = NativeProgram
    /\ result = "OK"
    /\ status = "idle"
    /\ errors = <<>>
    /\ stackTop = 0
    /\ NativeOutput
    /\ heap[output[4].v].chars = <<49, 10>>

\* The open-upvalue list from upvalue on, as the sequence of its nodes.
RECURSIVE OpenFrom(_, _)
OpenFrom(h, upvalue) ==
    IF upvalue = NULL THEN <<>> ELSE << upvalue >> \o OpenFrom(h, h[upvalue].next)

OpenList == OpenFrom(heap, openUpvalues)

\* The list is in strictly descending order of location.
OpenDescending ==
    \A i \in 1..(Len(OpenList) - 1) :
        heap[OpenList[i]].location > heap[OpenList[i + 1]].location

\* Every node of the list is an upvalue that points at a live stack slot.
OpenAreOpen ==
    \A i \in 1..Len(OpenList) :
        /\ heap[OpenList[i]].type = "upvalue"
        /\ heap[OpenList[i]].location # Closed
        /\ heap[OpenList[i]].location >= 0
        /\ heap[OpenList[i]].location < stackTop

\* C21: in every reachable state the open-upvalue list is sorted by strictly
\* descending stack location and every entry is open: its location is a stack
\* slot, not its own closed field.
C21_OpenListSorted == OpenDescending /\ OpenAreOpen

\* Four upvalues are open, the one of slot 3 captured after those of slots
\* 4 and 2 and linked between them, the one of slot 5 linked at the head.
C21_Witness ==
    /\ prog = NestProgram
    /\ Len(OpenList) = 4
    /\ [i \in 1..4 |-> heap[OpenList[i]].location - frame.slots] = <<5, 4, 3, 2>>
    /\ OpenList[3] > OpenList[2] /\ OpenList[3] > OpenList[4]

\* The occupied entries and the tombstones of a table's entry array.
Occupied(table) == {i \in 1..table.capacity : table.entries[i].key # NULL}
Tombstones(table) ==
    {i \in 1..table.capacity :
        table.entries[i].key = NULL /\ ~IS_NIL(table.entries[i].value)}

\* count is the number of occupied entries and tombstones, and at most three
\* quarters of the capacity.
CountIsLoad(table) ==
    /\ table.count = Cardinality(Occupied(table)) + Cardinality(Tombstones(table))
    /\ table.count * 4 <= table.capacity * 3

\* C22: after any sequence of tableSet and tableDelete operations, count
\* equals the number of occupied entries plus the number of tombstones of the
\* entry array, and count <= 0.75 * capacity.
C22_CountIsLoad == CountIsLoad(globals)

\* The slots of table's entry array that hold key.
SlotsOf(table, key) == {i \in 1..table.capacity : table.entries[i].key = key}

\* key is in the table: an entry of the array holds it.
Present(table, key) == SlotsOf(table, key) # {}

\* tableDelete of a key that is in the table: its slot becomes a tombstone,
\* nothing else changes, true is returned, the key is missed afterwards and
\* every other key is looked up as before.
DeletesPresent(key) ==
    LET d == tableDelete(heap, globals, key)
    IN  /\ ~d.hang
        /\ d.ret
        /\ d.table.count = globals.count
        /\ d.table.capacity = globals.capacity
        /\ \A i \in 1..globals.capacity :
               d.table.entries[i] =
                   IF i \in SlotsOf(globals, key) THEN Tombstone ELSE globals.entries[i]
        /\ ~tableGet(heap, d.table, key).hang
        /\ ~tableGet(heap, d.table, key).ret
        /\ \A other \in Keys \ {key} :
               tableGet(heap, d.table, other) = tableGet(heap, globals, other)

\* tableDelete of a key that is not in the table returns false and changes
\* nothing.
DeletesAbsent(key) ==
    LET d == tableDelete(heap, globals, key)
    IN  ~d.hang /\ ~d.ret /\ d.table = globals

\* C23: tableDelete(k) on a present key turns its slot into a tombstone,
\* leaves count unchanged and returns true, after which tableGet(k) misses
\* and every other key is found as before; on an absent key it returns false
\* and changes nothing.
C23_DeleteTombstones ==
    status = "idle" =>
        \A key \in Keys :
            IF Present(globals, key) THEN DeletesPresent(key) ELSE DeletesAbsent(key)

\* The same for the tables whose count has kept step with their entries.
DeleteTombstonesInStep == CountIsLoad(globals) => C23_DeleteTombstones

\* The array tableSet probes: the one it has grown, when it grows.
Probed ==
    IF (globals.count + 1) * 4 > globals.capacity * 3
    THEN adjustCapacity(heap, globals, GROW_CAPACITY(globals.capacity))
    ELSE globals

\* Slot number j (0-based) of key's probe sequence in table, as a 1-based
\* index of the entry array.
ProbeSlot(table, key, j) == ((HashMod(heap[key].hash, table.capacity) + j) % table.capacity) + 1

\* The steps of key's probe sequence at which an empty slot, or a tombstone
\* before the first empty slot, is met.
EmptySteps(table, key) ==
    {j \in 0..(table.capacity - 1) : table.entries[ProbeSlot(table, key, j)] = EmptyEntry}
FirstEmpty(table, key) ==
    CHOOSE j \in EmptySteps(table, key) : \A k \in EmptySteps(table, key) : j <= k
TombstoneSteps(table, key) ==
    {j \in 0..(FirstEmpty(table, key) - 1) :
        table.entries[ProbeSlot(table, key, j)].key = NULL}

\* Where a key that is absent is to be written: the first tombstone of its
\* probe sequence, or else the empty slot that ends it.
SlotForNew(table, key) ==
    IF TombstoneSteps(table, key) # {}
    THEN ProbeSlot(table, key,
                   CHOOSE j \in TombstoneSteps(table, key) :
                       \A k \in TombstoneSteps(table, key) : j <= k)
    ELSE ProbeSlot(table, key, FirstEmpty(table, key))

\* tableSet of key: what it returns, where it writes and what it counts.
SetsKey(key, value) ==
    LET r == tableSet(heap, globals, key, value)
        slot == IF Present(globals, key) THEN CHOOSE i \in SlotsOf(Probed, key) : TRUE
                ELSE SlotForNew(Probed, key)
    IN  /\ ~r.hang
        /\ r.ret <=> ~Present(globals, key)
        /\ EmptySteps(Probed, key) # {}
        /\ r.table.entries = [Probed.entries EXCEPT ![slot] = Entry(key, value)]
        /\ r.table.count =
               Probed.count + (IF Probed.entries[slot] = EmptyEntry THEN 1 ELSE 0)

\* C24: tableSet(k, v) returns true iff k was not present immediately before
\* the call; for an absent key it writes into the first tombstone met on k's
\* probe sequence if there is one, otherwise into the empty slot that ends
\* the sequence, and it increments count only in the empty-slot case.
C24_SetFindsSlot ==
    status = "idle" => \A key \in UserKeys, value \in Values : SetsKey(key, value)

\* A new key has just been set, and for a key that is absent the probe
\* sequence meets a tombstone before its empty slot: the next tableSet of that
\* key goes to the tombstone and leaves count alone.
C24_Witness ==
    /\ status = "idle"
    /\ ret.op = "set" /\ ret.ret
    /\ \E key \in UserKeys :
           /\ ~Present(globals, key)
           /\ Probed = globals
           /\ TombstoneSteps(globals, key) # {}
           /\ tableSet(heap, globals, key, NUMBER_VAL(1)).table.count = globals.count
           /\ tableSet(heap, globals, key, NUMBER_VAL(1)).ret

\* OP_SET_GLOBAL is about to run on a name that no global is bound to.
SetsUndefined == At("OP_SET_GLOBAL") /\ RefGet(ref, READ_CONSTANT.v) = Absent

\* The step raised "Undefined variable 'name'." for the name of the operand.
RaisedUndefined ==
    /\ status' = "idle"
    /\ result' = "RUNTIME_ERROR"
    /\ errors' = Append(errors, [msg |-> "Undefined variable '%s'.",
                                 args |-> << heap[READ_CONSTANT.v].chars >>])

\* Every name is looked up after the step as it was before it.
GlobalsKept ==
    \A key \in Names :
        /\ ~tableGet(heap', globals', key).hang
        /\ tableGet(heap', globals', key) = tableGet(heap, globals, key)

\* C25: SET_GLOBAL on an undefined name raises "Undefined variable 'name'."
\* and leaves the globals table, seen as a mapping, exactly as it was: the
\* name still unbound, every other global with its previous value.
C25_SetGlobalRolledBack == [][SetsUndefined => (RaisedUndefined /\ GlobalsKept)]_vars

\* The step calls closeUpvalues, and the cutoff it passes: OP_CLOSE_UPVALUE
\* the slot on top, OP_RETURN the base of the frame.
Closes == At("OP_CLOSE_UPVALUE") \/ At("OP_RETURN")
Cutoff == IF At("OP_CLOSE_UPVALUE") THEN stackTop - 1 ELSE frame.slots

\* The nodes of list whose location is below cutoff, in the order of the list.
RECURSIVE KeptOf(_, _, _)
KeptOf(h, list, cutoff) ==
    IF list = <<>> THEN <<>>
    ELSE (IF h[list[1]].location < cutoff THEN << list[1] >> ELSE <<>>)
         \o KeptOf(h, Tail(list), cutoff)

\* closeUpvalues(cutoff) leaves in the list the upvalues below the cutoff,
\* untouched, and closes every other one over the value of its slot.
ClosesFromCutoff ==
    Closes =>
        /\ \A i \in 1..Len(OpenList') : heap'[OpenList'[i]].location < Cutoff
        /\ OpenList' = KeptOf(heap, OpenList, Cutoff)
        /\ \A i \in 1..Len(OpenList) :
               LET upvalue == OpenList[i]
               IN  IF heap[upvalue].location >= Cutoff
                   THEN /\ heap'[upvalue].location = Closed
                        /\ heap'[upvalue].closed = StackAt(stack, heap[upvalue].location)
                        /\ heap'[upvalue].next = heap[upvalue].next
                   ELSE heap'[upvalue] = heap[upvalue]

\* The upvalue that the OP_GET_UPVALUE or OP_SET_UPVALUE about to run names.
Named == heap[frame.closure].upvalues[instruction.a + 1]

\* Reads and writes through a closed upvalue go to its closed field, and
\* through an open one to its stack slot.
ThroughClosed ==
    /\ At("OP_GET_UPVALUE") =>
           TopAfter = (IF heap[Named].location = Closed THEN heap[Named].closed
                       ELSE StackAt(stack, heap[Named].location))
    /\ At("OP_SET_UPVALUE") =>
           IF heap[Named].location = Closed
           THEN /\ heap'[Named].closed = peek(M, 0)
                /\ \A k \in 0..(stackTop - 1) : StackAt(stack', k) = StackAt(stack, k)
           ELSE /\ StackAt(stack', heap[Named].location) = peek(M, 0)
                /\ heap' = heap

\* C26: after closeUpvalues(cutoff) no entry of the open list has location
\* >= cutoff; every upvalue unlinked holds in closed the value its slot had,
\* and reads and writes through it go to closed; every open upvalue below the
\* cutoff is unchanged and still in the list.
C26_CloseUpvalues == [][ClosesFromCutoff /\ ThroughClosed]_vars

\* The program has run in a fresh VM: the block end closed the upvalues of
\* slots 5 and 4 and left those of slots 3 and 2 open, the return closed these,
\* and the closures read and wrote the four of them, open and closed.
C26_Witness ==
    /\ prog = NestProgram
    /\ runs = 1
    /\ status = "idle"
    /\ result = "OK"
    /\ output = << NUMBER_VAL(15), NUMBER_VAL(14), NUMBER_VAL(20) >>
    /\ OpenList = <<>>
    /\ \E u \in 1..Len(heap) :
           /\ heap[u].type = "upvalue"
           /\ heap[u].location = Closed
           /\ heap[u].closed = NUMBER_VAL(12)

\* The OP_CALL about to run calls a closure, and the call goes through.
ClosureCalled ==
    /\ At("OP_CALL")
    /\ isObjType(heap, peek(M, instruction.a), "closure")
    /\ Len(frames') = Len(frames) + 1

\* The frame pushed has the callee's own slot as its base, the callee as its
\* closure and the start of its code as ip; the stack is as it was.
CallSetsWindow ==
    ClosureCalled =>
        /\ frames'[Len(frames')] =
               [closure |-> peek(M, instruction.a).v, ip |-> 1,
                slots |-> stackTop - instruction.a - 1]
        /\ StackAt(stack, frames'[Len(frames')].slots) = peek(M, instruction.a)
        /\ stackTop' = stackTop
        /\ SlotsKept(stackTop)

\* OP_RETURN in a called function: the frame is gone, no upvalue at or above
\* its base is left open, the stack below the callee's slot is as it was and
\* the returned value is in the callee's slot, on top.
ReturnRestores ==
    (At("OP_RETURN") /\ Len(frames) > 1) =>
        /\ status' = "running"
        /\ Len(frames') = Len(frames) - 1
        /\ \A i \in 1..(Len(frames) - 2) : frames'[i] = frames[i]
        /\ frames'[Len(frames')].closure = frames[Len(frames) - 1].closure
        /\ \A i \in 1..Len(OpenList') : heap'[OpenList'[i]].location < frame.slots
        /\ \A i \in 1..Len(OpenList) :
               heap[OpenList[i]].location >= frame.slots =>
                   heap'[OpenList[i]].location = Closed
        /\ stackTop' = frame.slots + 1
        /\ TopAfter = peek(M, 0)
        /\ SlotsKept(frame.slots)

\* OP_RETURN in the script: no frame and no value is left, and run returns OK.
ScriptReturns ==
    (At("OP_RETURN") /\ Len(frames) = 1) =>
        /\ frames' = <<>>
        /\ stackTop' = 0
        /\ OpenList' = <<>>
        /\ status' = "idle"
        /\ result' = "OK"

\* C27: a closure call sets the new frame's slots to the callee's own stack
\* slot; OP_RETURN from a called function closes every upvalue at or above
\* that base, pops the frame and leaves the stack as it was before the callee
\* and the arguments were pushed, plus the return value; OP_RETURN from the
\* script leaves the stack empty with no frame and returns OK.
C27_CallReturn == [][CallSetsWindow /\ ReturnRestores /\ ScriptReturns]_vars

\* outer(0) has returned 7 into the slot of its callee, above the 7 that was
\* waiting for the sum, and the script is about to add them.
C27_Witness ==
    /\ prog = NestProgram
    /\ runs = 1
    /\ status = "running"
    /\ Len(frames) = 1
    /\ instruction.op = "OP_ADD"
    /\ stackTop = 3
    /\ peek(M, 0) = NUMBER_VAL(7) /\ peek(M, 1) = NUMBER_VAL(7)
    /\ output = << NUMBER_VAL(15) >>
    /\ OpenList = <<>>

\* The instruction that ran last in the frame on top.
Executed == FunctionOf(heap, frame.closure).code[frame.ip - 1]

\* The stack is as high as it was and the assigned value is still on top.
ValueStays == stackTop' = stackTop /\ TopAfter = peek(M, 0)

\* OP_SET_LOCAL stores the top in the slot and leaves it on the stack.
SetLocalKeeps ==
    At("OP_SET_LOCAL") =>
        /\ ValueStays
        /\ StackAt(stack', frame.slots + instruction.a) = peek(M, 0)

\* OP_SET_UPVALUE stores the top through the upvalue and leaves it on the stack.
SetUpvalueKeeps ==
    At("OP_SET_UPVALUE") =>
        /\ ValueStays
        /\ ReadUpvalue(M', heap[frame.closure].upvalues[instruction.a + 1]) = peek(M, 0)

\* OP_SET_GLOBAL that finds its name in the table and goes on.
SetGlobalKeeps ==
    (At("OP_SET_GLOBAL") /\ status' = "running") =>
        /\ ValueStays
        /\ Binding(globals', READ_CONSTANT.v) = peek(M, 0)

\* OP_DEFINE_GLOBAL that comes back from tableSet takes the value off.
DefineGlobalConsumes ==
    (At("OP_DEFINE_GLOBAL") /\ status' # "hung") =>
        /\ status' = "running"
        /\ stackTop' = stackTop - 1
        /\ SlotsKept(stackTop - 1)
        /\ Binding(globals', READ_CONSTANT.v) = peek(M, 0)

\* C28: OP_SET_LOCAL, OP_SET_UPVALUE and an OP_SET_GLOBAL that succeeds leave
\* the stack height unchanged with the assigned value still on top, while
\* OP_DEFINE_GLOBAL lowers the stack height by exactly one.
C28_AssignKeepsDefineConsumes ==
    [][SetLocalKeeps /\ SetUpvalueKeeps /\ SetGlobalKeeps /\ DefineGlobalConsumes]_vars

\* a = 5 in outer has just run: 5 is in the slot of a and still on top, while
\* the closure g was assigned to the global gg before.
C28_Witness ==
    /\ prog = NestProgram
    /\ runs = 1
    /\ status = "running"
    /\ Len(frames) = 2
    /\ frame.ip > 1
    /\ Executed.op = "OP_SET_LOCAL"
    /\ peek(M, 0) = NUMBER_VAL(5)
    /\ StackAt(stack, frame.slots + Executed.a) = NUMBER_VAL(5)
    /\ \E i \in 1..Len(globals.entries) :
           /\ isObjType(heap, globals.entries[i].value, "closure")
           /\ Len(heap[globals.entries[i].value.v].upvalues) = 3

\* The tokens of the source not consumed yet: the current one, unless it is
\* TOKEN_EOF, and those the scanner has not produced.
Remaining(c) ==
    (Len(c.tokens) - c.pos + 1) + (IF c.current.type = "TOKEN_EOF" THEN 0 ELSE 1)

\* One turn of the loop of compile ran in this step.
DeclerationPass == CompileRunning /\ CompileRunning'

\* A turn of the loop consumes at least one token.
PassConsumes == DeclerationPass => Remaining(parser') < Remaining(parser)

\* synchronize ran in this step.
SynchronizeRan == DeclerationPass /\ parser'.synchronized = parser.synchronized + 1

\* Where synchronize stops: just after a ';', at a token that starts a
\* statement, or at TOKEN_EOF.
Boundary(c) ==
    \/ c.previous.type = "TOKEN_SEMICOLON"
    \/ c.current.type \in {"TOKEN_CLASS", "TOKEN_FUN", "TOKEN_VAR", "TOKEN_FOR",
                            "TOKEN_IF", "TOKEN_WHILE", "TOKEN_PRINT", "TOKEN_RETURN"}
    \/ c.current.type = "TOKEN_EOF"

\* errorAt was called after the last call of synchronize, that is, by the
\* advance of its loop, on an error token.
ReportedWhileSkipping(c) ==
    /\ c.calls # <<>>
    /\ c.calls[Len(c.calls)].kind = "errorAt"
    /\ \E i \in 1..Len(c.calls) : c.calls[i].kind = "synchronize"

\* synchronize stops at a boundary with panicMode clear.
SynchronizeStopsClear ==
    SynchronizeRan => (Boundary(parser') /\ ~parser'.panicMode)

\* synchronize stops at a boundary, with panicMode clear unless its own
\* advance has reported an error token.
SynchronizeStops ==
    SynchronizeRan =>
        /\ Boundary(parser')
        /\ parser'.panicMode <=> ReportedWhileSkipping(parser')

\* compile, once called, returns.
CompileTerminates == CompileRunning ~> (parser.phase = "done")

\* C29: compile terminates on every finite token stream, with or without
\* errors: each turn of the declaration loop consumes at least one token, and
\* synchronize stops just after a ';', or at class, fun, var, for, if, while,
\* print or return, or at EOF, with panicMode cleared unless an error token
\* was reported while it skipped.
C29_CompileTerminates ==
    /\ CompileTerminates
    /\ [][PassConsumes /\ SynchronizeStops]_vars

\* C29 as stated: synchronize always stops with panicMode cleared.
C29_Original ==
    /\ CompileTerminates
    /\ [][PassConsumes /\ SynchronizeStopsClear]_vars

\* synchronize has skipped an error token up to the end of the source: the
\* loop of compile is at TOKEN_EOF with panicMode set.
C29_Witness ==
    /\ parser.phase = "declerations"
    /\ parser.current.type = "TOKEN_EOF"
    /\ parser.synchronized = 1
    /\ parser.panicMode
    /\ ReportedWhileSkipping(parser)
    /\ Len(parser.reported) = 2

TooMany == "Too many constants in one chunk."

\* An error of the compiler (the message of an error token is its lexeme).
OfCompiler(entry) == entry.token.type # "TOKEN_ERROR"

\* The constants added to the chunk at an index above UINT8_MAX.
Overflowing == {i \in 1..Len(parser.constants) : i - 1 > UINT8_MAX}

\* The calls of error made with "Too many constants in one chunk.".
TooManyCalls ==
    {i \in 1..Len(parser.calls) :
        /\ parser.calls[i].kind = "errorAt"
        /\ OfCompiler(parser.calls[i])
        /\ parser.calls[i].message = TooMany}

TooManyReported ==
    \E i \in 1..Len(parser.reported) :
        OfCompiler(parser.reported[i]) /\ parser.reported[i].message = TooMany

\* compile has returned.
CompileDone == parser.phase = "done"

\* Every constant added above UINT8_MAX is answered by a call of error, and
\* the compile fails.
OverflowFails ==
    /\ Cardinality(TooManyCalls) = Cardinality(Overflowing)
    /\ Overflowing # {} => parser.hadError
    /\ (CompileDone /\ Overflowing # {}) => ~parser.ok

\* The message is printed whenever a constant is added above UINT8_MAX.
OverflowReported == Overflowing # {} => TooManyReported

\* The message is printed exactly when one of those calls of error finds
\* panicMode clear.
OverflowReportedUnlessPanic ==
    TooManyReported <=> \E i \in TooManyCalls : ~parser.calls[i].panicMode

\* The tokens of the source that stand for a constant, in order.
Literals(tokens) ==
    SelectSeq(tokens, LAMBDA token : token.type \in {"TOKEN_NUMBER", "TOKEN_STRING",
                                                     "TOKEN_IDENTIFIER"})

\* The constant a token stands for: the number a number literal spells, the
\* characters between the quotes of a string literal, the name of a global.
ConstantFor(token) ==
    CASE token.type = "TOKEN_NUMBER" -> Num(strtod(token.chars))
      [] token.type = "TOKEN_STRING" -> Str(SubSeq(token.chars, 2, Len(token.chars) - 1))
      [] token.type = "TOKEN_IDENTIFIER" -> Str(token.chars)

\* The instruction a token's constant is the operand of, and the index of the
\* constant: OP_DEFINE_GLOBAL for the name after var, OP_GET_GLOBAL for another
\* name, OP_CONSTANT for a literal.
EmittedFor(tokens) ==
    { [op |-> IF tokens[i].type # "TOKEN_IDENTIFIER" THEN "OP_CONSTANT"
              ELSE IF i > 1 /\ tokens[i - 1].type = "TOKEN_VAR" THEN "OP_DEFINE_GLOBAL"
              ELSE "OP_GET_GLOBAL",
       a |-> Len(Literals(SubSeq(tokens, 1, i))) - 1] :
        i \in {j \in 1..Len(tokens) : tokens[j].type \in {"TOKEN_NUMBER", "TOKEN_STRING",
                                                            "TOKEN_IDENTIFIER"}} }

\* The instructions of the chunk that have a constant for operand.
WithConstant ==
    {i \in 1..Len(parser.code) :
        parser.code[i].op \in {"OP_CONSTANT", "OP_DEFINE_GLOBAL", "OP_GET_GLOBAL"}}

\* In the chunk of a successful compile every literal and every name of the
\* source has its constant, in order, and every operand is the index of the
\* constant of the token its instruction was emitted for.
OperandsIndex ==
    (CompileDone /\ parser.ok) =>
        /\ Len(parser.constants) <= UINT8_MAX + 1
        /\ Len(parser.constants) = Len(Literals(parser.tokens))
        /\ \A k \in 1..Len(parser.constants) :
               parser.constants[k] = ConstantFor(Literals(parser.tokens)[k])
        /\ Cardinality(WithConstant) = Len(parser.constants)
        /\ {[op |-> parser.code[i].op, a |-> parser.code[i].a] : i \in WithConstant}
               = EmittedFor(parser.tokens)

\* C30: whenever a chunk needs a constant with an index above 255, error is
\* called with "Too many constants in one chunk.", which is printed unless
\* panicMode is set at that moment, and the compile fails; in the chunk of a
\* successful compile each constant operand is the index of the constant the
\* instruction was emitted for.
C30_ConstantLimit == OverflowFails /\ OverflowReportedUnlessPanic /\ OperandsIndex

\* C30 as stated: the message is printed whenever the limit is passed.
C30_Original == OverflowFails /\ OverflowReported /\ OperandsIndex

\* compile has failed on 256 statements `1;` and `2;`: the one error printed
\* is the message, at the literal that needed index 256.
C30_Witness ==
    /\ CompileDone
    /\ ~parser.ok
    /\ Len(parser.constants) = UINT8_MAX + 2
    /\ Len(parser.reported) = 1
    /\ parser.reported[1] = [token |-> Digit(2), message |-> TooMany]

\* The upvalues of the closures that are bound to a global.
GlobalUpvalues ==
    UNION { {heap[globals.entries[i].value.v].upvalues[k] :
                k \in 1..Len(heap[globals.entries[i].value.v].upvalues)} :
            i \in {j \in 1..Len(globals.entries) :
                     /\ globals.entries[j].key # NULL
                     /\ isObjType(heap, globals.entries[j].value, "closure")} }

\* interpret has returned INTERPRET_RUNTIME_ERROR.
AfterRuntimeError == status = "idle" /\ result = "RUNTIME_ERROR"

\* C31: after interpret returns a runtime error, no upvalue of a closure
\* stored in a global is still open, pointing into the value stack.
C31_ClosedAfterError ==
    AfterRuntimeError => \A u \in GlobalUpvalues : heap[u].location = Closed

\* The OP_ADD about to run concatenates two Strings.
Concatenates ==
    At("OP_ADD") /\ IS_STRING(heap, peek(M, 0)) /\ IS_STRING(heap, peek(M, 1))

\* C32: for operands of lengths m and n, every index concatenate writes
\* (0 .. m + n) is below the size of the buffer it allocated.
C32_ConcatenateInside ==
    Concatenates => WritesInside(ConcatBuffer(heap, peek(M, 1).v, peek(M, 0).v))

\* C33: for every call of a native with argCount arguments, each args[i] the
\* native reads has i < argCount, a slot below stackTop that holds an
\* argument.
C33_NativeReadsArguments ==
    NativeCalled =>
        \A i \in ArgsRead(heap[peek(M, instruction.a).v].fn) :
            /\ i < instruction.a
            /\ (stackTop - instruction.a) + i < stackTop

====
